---- MODULE Spec2Model ----
(***************************************************************************)
(* A model of creepyblues/youtube_scraper: the extractor strategies        *)
(* (yt-dlp scraper, YouTube Data API scraper, the two transcript           *)
(* extractors, the two Whisper transcribers), the transcript fallback      *)
(* endpoint, the comparison endpoint with its worker pool, and the         *)
(* comparator generate_comparison_summary.                                 *)
(*                                                                         *)
(* Conventions.  A Python Optional value is a sequence of length <= 1:     *)
(* None is << >> and a present value x is << x >>.  Python strings are     *)
(* TLA+ strings; f-string composition is \o.  An extractor is an operator  *)
(* of its url and of a record `w` holding what each external call does     *)
(* (returns or raises) during that invocation; it yields an Outcome: the   *)
(* envelope returned or the exception that escaped, and the external       *)
(* calls issued, in order.  Time values read from caption events are kept  *)
(* in the millisecond unit of the source payload.                          *)
(***************************************************************************)
EXTENDS Integers, Sequences, FiniteSets, TLC

VARIABLES
    last,       \* SpecExtract: the extractor call made last and its outcome
    tpc,        \* SpecTranscript: position of the scrape_transcript handler
    treq,       \* SpecTranscript: the request being served
    s1,         \* SpecTranscript: outcome of strategy 1 (Option)
    s2,         \* SpecTranscript: outcome of strategy 2 (Option)
    invoked,    \* SpecTranscript: strategies invoked so far, in order
    response,   \* SpecTranscript: the envelope the endpoint returned (Option)
    program,    \* SpecCompare: which of the two applications runs ("backend" or "api")
    creq,       \* SpecCompare: per request, the handler's position and its inputs
    queue,      \* SpecCompare: the executor's FIFO work queue
    running,    \* SpecCompare: the work items held by worker threads
    future,     \* SpecCompare: per work item, its result once finished
    finished,   \* SpecCompare: per request, its work items in the order they finished
    cresp,      \* SpecCompare: per request, the ComparisonResult (Option)
    sreq,       \* SpecSummary: the comparator call: variant and envelopes (Option)
    sres,       \* SpecSummary: the summary the comparator returned (Option)
    clock,      \* SpecWhisper: int(time.time()), the wall clock in whole seconds
    disk,       \* SpecWhisper: the files in the temp directory, as << stem, ext >>
    wcall,      \* SpecWhisper: per invocation of the hosted transcriber, its position and locals
    fcall       \* SpecPure: the call of a helper function made last, with its result (Option)

vars == << last, tpc, treq, s1, s2, invoked, response,
           program, creq, queue, running, future, finished, cresp, sreq, sres,
           clock, disk, wcall, fcall >>

extractVars    == << last >>
transcriptVars == << tpc, treq, s1, s2, invoked, response >>
compareVars    == << program, creq, queue, running, future, finished, cresp >>
summaryVars    == << sreq, sres >>
whisperVars    == << clock, disk, wcall >>
pureVars       == << fcall >>

(***************************************************************************)
(* Optional values                                                         *)
(***************************************************************************)
None == << >>
Some(x) == << x >>
IsNone(o) == o = << >>
IsSome(o) == o # << >>
Get(o) == o[1]

Min(S) == CHOOSE x \in S : \A y \in S : x <= y

(***************************************************************************)
(* Python string operations used by the program                            *)
(***************************************************************************)
CharAt(s, i) == SubSeq(s, i, i)

\* needle in s
Contains(needle, s) ==
    \E i \in 1..(Len(s) - Len(needle) + 1) : SubSeq(s, i, i + Len(needle) - 1) = needle

UpperCase == << "A","B","C","D","E","F","G","H","I","J","K","L","M",
                "N","O","P","Q","R","S","T","U","V","W","X","Y","Z" >>
LowerCase == << "a","b","c","d","e","f","g","h","i","j","k","l","m",
                "n","o","p","q","r","s","t","u","v","w","x","y","z" >>

LowerChar(c) ==
    IF \E k \in 1..Len(UpperCase) : UpperCase[k] = c
    THEN LowerCase[CHOOSE k \in 1..Len(UpperCase) : UpperCase[k] = c]
    ELSE c

RECURSIVE Lower(_)
\* str.lower()
Lower(s) == IF Len(s) = 0 THEN "" ELSE LowerChar(CharAt(s, 1)) \o Lower(SubSeq(s, 2, Len(s)))

\* str(x) of an Optional[str]: str(None) is the text "None"
Str(o) == IF IsNone(o) THEN "None" ELSE Get(o)

(***************************************************************************)
(* extract_video_id                                                        *)
(***************************************************************************)
VideoIdLen == 11

Digits == { "0","1","2","3","4","5","6","7","8","9" }
IdChars == { LowerCase[k] : k \in 1..Len(LowerCase) } \cup
           { UpperCase[k] : k \in 1..Len(UpperCase) } \cup Digits \cup { "_", "-" }

StartsAt(s, i, lit) == i + Len(lit) - 1 <= Len(s) /\ SubSeq(s, i, i + Len(lit) - 1) = lit

\* ([a-zA-Z0-9_-]{11}) matches at position j
IdAt(s, j) == /\ j + VideoIdLen - 1 <= Len(s)
              /\ \A k \in j..(j + VideoIdLen - 1) : CharAt(s, k) \in IdChars

\* (?:alt1|alt2|...)([a-zA-Z0-9_-]{11}) matches at position i
MatchesAt(s, i, alts) ==
    \E a \in 1..Len(alts) : StartsAt(s, i, alts[a]) /\ IdAt(s, i + Len(alts[a]))

\* re.search(pattern, s), then match.group(1): the leftmost match, and at
\* that position the first alternative that matches
ReSearchId(alts, s) ==
    LET hits == { i \in 1..Len(s) : MatchesAt(s, i, alts) } IN
    IF hits = {} THEN None
    ELSE LET i == Min(hits)
             a == Min({ b \in 1..Len(alts) : StartsAt(s, i, alts[b]) /\ IdAt(s, i + Len(alts[b])) })
             j == i + Len(alts[a])
         IN Some(SubSeq(s, j, j + VideoIdLen - 1))

\* the pattern list without its last entry
IdPatternsNoShorts == << << "v=", "/v/", "youtu.be/" >>, << "embed/" >> >>

IdPatterns == << << "v=", "/v/", "youtu.be/" >>, << "embed/" >>, << "shorts/" >> >>

\* the pattern lists of the other copies of the function
YtdlpScraperIdPatterns == << << "v=", "/v/", "youtu.be/" >>, << "embed/" >>, << "shorts/" >> >>

ApiScraperIdPatterns == << << "v=", "/v/", "youtu.be/" >>, << "embed/" >>, << "shorts/" >> >>

TranscriptScraperIdPatterns == << << "v=", "/v/", "youtu.be/" >>, << "embed/" >>, << "shorts/" >> >>

AITranscriberIdPatterns == << << "v=", "/v/", "youtu.be/" >>, << "embed/" >>, << "shorts/" >> >>

\* the modules that define extract_video_id
ExtractVideoIdModules ==
    { "api/index.py", "backend/scrapers/ytdlp_scraper.py", "backend/scrapers/api_scraper.py",
      "backend/scrapers/transcript_scraper.py", "backend/scrapers/ai_transcriber.py" }

PatternsOf(module) ==
    CASE module = "api/index.py" -> IdPatterns
      [] module = "backend/scrapers/ytdlp_scraper.py" -> YtdlpScraperIdPatterns
      [] module = "backend/scrapers/api_scraper.py" -> ApiScraperIdPatterns
      [] module = "backend/scrapers/transcript_scraper.py" -> TranscriptScraperIdPatterns
      [] module = "backend/scrapers/ai_transcriber.py" -> AITranscriberIdPatterns

\* for pattern in patterns: match = re.search(pattern, url); if match: return match.group(1)
RECURSIVE FirstMatchIn(_, _, _)
FirstMatchIn(patterns, k, url) ==
    IF k > Len(patterns) THEN None
    ELSE LET m == ReSearchId(patterns[k], url) IN
         IF IsSome(m) THEN m ELSE FirstMatchIn(patterns, k + 1, url)

\* extract_video_id as the given module defines it
ExtractVideoIdOf(module, url) == FirstMatchIn(PatternsOf(module), 1, url)

RECURSIVE FirstPatternMatch(_, _)
FirstPatternMatch(k, url) ==
    IF k > Len(IdPatterns) THEN None
    ELSE LET m == ReSearchId(IdPatterns[k], url) IN
         IF IsSome(m) THEN m ELSE FirstPatternMatch(k + 1, url)

extract_video_id(url) == FirstPatternMatch(1, url)

(***************************************************************************)
(* The result envelope, exceptions, outcomes                               *)
(***************************************************************************)
\* ScraperResult(success=, method=, data=, error=); data and error default to None
ScraperResult(success, method, data, error) ==
    [ success |-> success, method |-> method, data |-> data, error |-> error ]

Exc(type, msg) == [ type |-> type, msg |-> msg ]

\* What an extractor call ends in
Returned(env, calls) == [ raised |-> FALSE, env |-> Some(env), exc |-> None, calls |-> calls ]
Raised(exc, calls)   == [ raised |-> TRUE,  env |-> None, exc |-> Some(exc), calls |-> calls ]

\* An external call: its value, or the exception it raises
Ret(v)   == [ ok |-> TRUE,  v |-> Some(v), exc |-> None ]
Throw(e) == [ ok |-> FALSE, v |-> None,    exc |-> Some(e) ]

(***************************************************************************)
(* Raw payload values: a dict key is absent, holds null, or holds a value  *)
(***************************************************************************)
Absent == [ k |-> "absent" ]
Null   == [ k |-> "null" ]
Val(x) == [ k |-> "val", v |-> x ]

\* dict.get(key, default): default is None when the call gives none
DictGet(raw, default) ==
    IF raw.k = "absent" THEN default
    ELSE IF raw.k = "null" THEN None
    ELSE Some(raw.v)

\* not x, on an Optional string and on an Optional number
FalsyStr(o) == IsNone(o) \/ Get(o) = ""
FalsyNum(o) == IsNone(o) \/ Get(o) = 0

(***************************************************************************)
(* The canonical metadata model (the fields the program reads back)        *)
(* Lists whose elements are never inspected are kept as their length.      *)
(***************************************************************************)
\* VideoMetadata(video_id=, title=, scraper_method=) with every default
VideoMetadata(video_id, title, method) ==
    [ video_id |-> video_id, title |-> title, description |-> None,
      channel |-> None, engagement |-> None, technical |-> None,
      classification |-> None, thumbnails |-> 0, chapters |-> 0,
      transcript |-> << >>, comments |-> 0, raw_data |-> None,
      scraper_method |-> method ]

TranscriptSegment(text, start, duration) ==
    [ text |-> text, start |-> start, duration |-> duration ]

(***************************************************************************)
(* Caption events (json3)                                                  *)
(***************************************************************************)
Whitespace == { " ", "\t", "\n" }

RECURSIVE LStrip(_)
LStrip(s) == IF Len(s) > 0 /\ CharAt(s, 1) \in Whitespace
             THEN LStrip(SubSeq(s, 2, Len(s))) ELSE s

RECURSIVE RStrip(_)
RStrip(s) == IF Len(s) > 0 /\ CharAt(s, Len(s)) \in Whitespace
             THEN RStrip(SubSeq(s, 1, Len(s) - 1)) ELSE s

\* str.strip()
Strip(s) == RStrip(LStrip(s))

RECURSIVE JoinUtf8(_)
\* ''.join(seg.get('utf8', '') for seg in event['segs'])
JoinUtf8(segs) == IF segs = << >> THEN "" ELSE Head(segs) \o JoinUtf8(Tail(segs))

RECURSIVE EventsToSegments(_)
\* the event loop of _parse_json3 (and of _parse_info in backend): an event
\* with 'segs' whose joined text is not blank becomes one segment
EventsToSegments(events) ==
    IF events = << >> THEN << >>
    ELSE LET ev == Head(events)
             rest == EventsToSegments(Tail(events))
         IN IF IsSome(ev.segs) /\ Strip(JoinUtf8(Get(ev.segs))) # ""
            THEN << TranscriptSegment(Strip(JoinUtf8(Get(ev.segs))), ev.tStartMs, ev.dDurationMs) >> \o rest
            ELSE rest

\* _parse_json3(data): data.get('events', []) if data is a dict, else []
ParseJson3(data) == IF data.isdict THEN EventsToSegments(data.events) ELSE << >>

(***************************************************************************)
(* Subtitle maps of a yt-dlp info record                                   *)
(***************************************************************************)
\* language codes a video's caption maps are keyed by in this model
LangCodes == { "en", "en-US", "en-GB", "en-orig", "de" }

\* a caption map with no key
NoSubs == [ l \in LangCodes |-> None ]

\* {**automatic_captions, **subtitles}: the manual map's entry wins
MergeSubs(automatic_captions, subtitles) ==
    [ l \in LangCodes |-> IF IsSome(subtitles[l]) THEN subtitles[l] ELSE automatic_captions[l] ]

RECURSIVE EmbeddedSegments(_)
\* segments of the formats of one language that are json3 and carry 'data'
EmbeddedSegments(formats) ==
    IF formats = << >> THEN << >>
    ELSE LET f == Head(formats) IN
         (IF f.ext = "json3" /\ IsSome(f.data)
          THEN EventsToSegments(Get(f.data).events) ELSE << >>)
         \o EmbeddedSegments(Tail(formats))

YtdlpScraperLangs == << "en", "en-US", "en-GB", "en-orig" >>

RECURSIVE FirstLangSegments(_, _)
\* for lang_code in [...]: if lang_code in all_subs: ...; break
FirstLangSegments(k, all_subs) ==
    IF k > Len(YtdlpScraperLangs) THEN << >>
    ELSE IF IsSome(all_subs[YtdlpScraperLangs[k]])
         THEN EmbeddedSegments(Get(all_subs[YtdlpScraperLangs[k]]))
         ELSE FirstLangSegments(k + 1, all_subs)

(***************************************************************************)
(* YtdlpScraper                                                            *)
(***************************************************************************)
CommentCap == 100
HdHeight == 720

\* faulty variant of the slice: the whole list is kept
CapCommentsKeepAll(n) == n

\* comments[:100] on a list of n comments
CapComments(n) == IF n > CommentCap THEN CommentCap ELSE n

\* len(x or []) of a raw list kept as its length
LenOrEmpty(raw) == IF raw.k = "val" THEN raw.v ELSE 0

\* YtdlpScraper._parse_info: the metadata, or the exception the mapping raises
\* (iterating None, comparing None with an int, a None title in the model)
YtdlpParseInfo(variant, info, video_id) ==
    IF info.thumbnails.k = "null"
    THEN Throw(Exc("TypeError", "'NoneType' object is not iterable"))
    ELSE IF info.height.k = "null"
    THEN Throw(Exc("TypeError", "'>=' not supported between instances of 'NoneType' and 'int'"))
    ELSE IF info.age_limit.k = "null"
    THEN Throw(Exc("TypeError", "'>' not supported between instances of 'NoneType' and 'int'"))
    ELSE IF IsNone(DictGet(info.title, Some("")))
    THEN Throw(Exc("ValidationError", "1 validation error for VideoMetadata"))
    ELSE Ret([ VideoMetadata(video_id, Get(DictGet(info.title, Some(""))), "yt-dlp") EXCEPT
        !.description = DictGet(info.description, Some("")),
        !.channel = Some([ subscriber_count |-> DictGet(info.channel_follower_count, None) ]),
        !.engagement = Some([ view_count |-> DictGet(info.view_count, None),
                              like_count |-> DictGet(info.like_count, None),
                              comment_count |-> DictGet(info.comment_count, None) ]),
        !.technical = Some([ definition |-> IF Get(DictGet(info.height, Some(0))) >= HdHeight
                                            THEN "hd" ELSE "sd",
                             fps |-> DictGet(info.fps, None),
                             video_codec |-> DictGet(info.vcodec, None),
                             bitrate |-> DictGet(info.tbr, None) ]),
        !.classification = Some([ tags |-> LenOrEmpty(info.tags),
                                  is_age_restricted |-> Get(DictGet(info.age_limit, Some(0))) > 0 ]),
        !.thumbnails = LenOrEmpty(info.thumbnails),
        !.chapters = LenOrEmpty(info.chapters),
        !.transcript = IF variant = "backend"
                       THEN FirstLangSegments(1, MergeSubs(info.automatic_captions, info.subtitles))
                       ELSE << >>,
        !.comments = CapComments(LenOrEmpty(info.comments)),
        !.raw_data = Some([ source |-> "info" ]) ])

\* faulty variant of the except clauses: the failed envelope carries no error
YtdlpScrapeExceptNoError(exc, calls) ==
    Returned(ScraperResult(FALSE, "yt-dlp", None, None), calls)

\* the except clauses of YtdlpScraper.scrape
YtdlpScrapeExcept(exc, calls) ==
    IF exc.type = "DownloadError"
    THEN Returned(ScraperResult(FALSE, "yt-dlp", None, Some("Download error: " \o exc.msg)), calls)
    ELSE Returned(ScraperResult(FALSE, "yt-dlp", None, Some("Unexpected error: " \o exc.msg)), calls)

\* YtdlpScraper.scrape(url); w.extract_info is what ydl.extract_info does
YtdlpScrape(variant, url, w) ==
    LET video_id == extract_video_id(url) IN
    IF IsNone(video_id)
    THEN Returned(ScraperResult(FALSE, "yt-dlp", None, Some("Could not extract video ID from URL")), << >>)
    ELSE LET calls == << "ydl.extract_info" >> IN
         IF ~w.extract_info.ok THEN YtdlpScrapeExcept(Get(w.extract_info.exc), calls)
         ELSE IF IsNone(Get(w.extract_info.v))
         THEN Returned(ScraperResult(FALSE, "yt-dlp", None, Some("Failed to extract video information")), calls)
         ELSE LET parsed == YtdlpParseInfo(variant, Get(Get(w.extract_info.v)), Get(video_id)) IN
              IF ~parsed.ok THEN YtdlpScrapeExcept(Get(parsed.exc), calls)
              ELSE Returned(ScraperResult(TRUE, "yt-dlp", parsed.v, None), calls)

(***************************************************************************)
(* YouTubeAPIScraper (variant "backend": backend/scrapers/api_scraper.py,  *)
(* variant "api": api/index.py)                                            *)
(***************************************************************************)
\* video_data.get('snippet', {}) of a video resource with no snippet
EmptySnippet ==
    [ channelId |-> None, channelTitle |-> None, title |-> None,
      description |-> None, tags |-> 0, thumbnails |-> 0 ]

OrEmptyStr(o) == IF IsNone(o) THEN "" ELSE Get(o)

MaxResults == 100

\* the items of the page commentThreads().list(maxResults=100) answers with
\* for a video that has `threads` top-level comment threads
CommentThreadsPage(threads) == IF threads > MaxResults THEN MaxResults ELSE threads

\* YouTubeAPIScraper._parse_response
ApiParseResponse(variant, video_id, video_data, channel_data, comments) ==
    LET snippet == IF IsSome(video_data.snippet) THEN Get(video_data.snippet) ELSE EmptySnippet
        channel_info ==
            IF IsSome(channel_data)
            THEN [ id |-> IF IsSome(Get(channel_data).id) THEN Get(Get(channel_data).id)
                          ELSE OrEmptyStr(snippet.channelId),
                   name |-> IF IsSome(Get(channel_data).title) THEN Get(Get(channel_data).title)
                            ELSE OrEmptyStr(snippet.channelTitle),
                   subscriber_count |-> Get(channel_data).subscriberCount ]
            ELSE [ id |-> OrEmptyStr(snippet.channelId),
                   name |-> OrEmptyStr(snippet.channelTitle),
                   subscriber_count |-> None ]
    IN [ VideoMetadata(video_id, OrEmptyStr(snippet.title), "YouTube API v3") EXCEPT
        !.description = Some(OrEmptyStr(snippet.description)),
        !.channel = Some(channel_info),
        !.engagement = Some([ view_count |-> video_data.statistics.viewCount,
                              like_count |-> video_data.statistics.likeCount,
                              comment_count |-> video_data.statistics.commentCount ]),
        !.technical = Some([ definition |-> IF IsSome(video_data.definition)
                                            THEN Get(video_data.definition) ELSE "sd",
                             fps |-> None, video_codec |-> None, bitrate |-> None ]),
        !.classification = Some([ tags |-> snippet.tags, is_age_restricted |-> FALSE ]),
        !.thumbnails = snippet.thumbnails,
        !.comments = comments,
        !.raw_data = Some([ source |-> "video_data" ]) ]

\* the except clauses of YouTubeAPIScraper.scrape
ApiScrapeExcept(variant, exc, calls) ==
    IF exc.type = "HttpError"
    THEN Returned(ScraperResult(FALSE, "YouTube API v3", None, Some("API Error: " \o exc.msg)), calls)
    ELSE Returned(ScraperResult(FALSE, "YouTube API v3", None,
                      Some((IF variant = "backend" THEN "Unexpected error: " ELSE "Error: ") \o exc.msg)),
                  calls)

\* faulty variant of the comment threads request: its HttpError is not caught
\* on the spot and reaches the except clauses of scrape
ApiScrapeCommentsFatal(variant, video_id, video_data, channel_data, include_comments, w, calls) ==
    IF ~include_comments
    THEN Returned(ScraperResult(TRUE, "YouTube API v3",
                      Some(ApiParseResponse(variant, video_id, video_data, channel_data, 0)), None), calls)
    ELSE LET calls2 == Append(calls, "commentThreads.list") IN
         IF ~w.comment_threads.ok
         THEN ApiScrapeExcept(variant, Get(w.comment_threads.exc), calls2)
         ELSE Returned(ScraperResult(TRUE, "YouTube API v3",
                  Some(ApiParseResponse(variant, video_id, video_data, channel_data,
                                        CommentThreadsPage(Get(w.comment_threads.v)))), None), calls2)

\* faulty variant: the comment threads are requested whether asked for or not
ApiScrapeCommentsAlways(variant, video_id, video_data, channel_data, include_comments, w, calls) ==
    LET calls2 == Append(calls, "commentThreads.list") IN
    IF ~w.comment_threads.ok /\ Get(w.comment_threads.exc).type # "HttpError"
    THEN ApiScrapeExcept(variant, Get(w.comment_threads.exc), calls2)
    ELSE LET comments == IF w.comment_threads.ok /\ include_comments
                         THEN CommentThreadsPage(Get(w.comment_threads.v)) ELSE 0 IN
         Returned(ScraperResult(TRUE, "YouTube API v3",
             Some(ApiParseResponse(variant, video_id, video_data, channel_data, comments)), None), calls2)

\* scrape from `comments = []` on: the optional comment threads request, the
\* mapping and the successful return
ApiScrapeComments(variant, video_id, video_data, channel_data, include_comments, w, calls) ==
    IF ~include_comments
    THEN Returned(ScraperResult(TRUE, "YouTube API v3",
                      Some(ApiParseResponse(variant, video_id, video_data, channel_data, 0)), None), calls)
    ELSE LET calls2 == Append(calls, "commentThreads.list") IN
         IF ~w.comment_threads.ok /\ Get(w.comment_threads.exc).type # "HttpError"
         THEN ApiScrapeExcept(variant, Get(w.comment_threads.exc), calls2)
         ELSE LET comments == IF w.comment_threads.ok
                              THEN CommentThreadsPage(Get(w.comment_threads.v)) ELSE 0 IN
              Returned(ScraperResult(TRUE, "YouTube API v3",
                  Some(ApiParseResponse(variant, video_id, video_data, channel_data, comments)), None), calls2)

\* scrape from `video_data = video_response['items'][0]` on: the channel request
ApiScrapeChannel(variant, video_id, video_data, include_comments, w, calls) ==
    IF variant = "backend" /\ IsNone(video_data.snippet)
    THEN ApiScrapeExcept(variant, Exc("KeyError", "'snippet'"), calls)
    ELSE LET channel_id == IF IsSome(video_data.snippet) THEN Get(video_data.snippet).channelId ELSE None IN
         IF FalsyStr(channel_id)
         THEN ApiScrapeComments(variant, video_id, video_data, None, include_comments, w, calls)
         ELSE LET calls2 == Append(calls, "channels.list") IN
              IF ~w.channels.ok THEN ApiScrapeExcept(variant, Get(w.channels.exc), calls2)
              ELSE LET items == Get(w.channels.v)
                       channel_data == IF items = << >> THEN None ELSE Some(items[1])
                   IN ApiScrapeComments(variant, video_id, video_data, channel_data,
                                        include_comments, w, calls2)

\* faulty variant of scrape: the client is built before the key is looked at
YouTubeAPIScrapeLateKeyCheck(variant, url, include_comments, w) ==
    IF ~w.build.ok THEN ApiScrapeExcept(variant, Get(w.build.exc), << "build" >>)
    ELSE IF FalsyStr(w.api_key)
    THEN Returned(ScraperResult(FALSE, "YouTube API v3", None,
             Some("YouTube API key not configured. Set YOUTUBE_API_KEY environment variable.")),
             << "build" >>)
    ELSE LET video_id == extract_video_id(url) IN
         IF IsNone(video_id)
         THEN Returned(ScraperResult(FALSE, "YouTube API v3", None,
                  Some("Could not extract video ID")), << "build" >>)
         ELSE IF ~w.videos.ok THEN ApiScrapeExcept(variant, Get(w.videos.exc), << "build", "videos.list" >>)
         ELSE IF Get(w.videos.v) = << >>
         THEN Returned(ScraperResult(FALSE, "YouTube API v3", None, Some("Video not found or is private")),
                       << "build", "videos.list" >>)
         ELSE ApiScrapeChannel(variant, Get(video_id), Get(w.videos.v)[1], include_comments, w,
                               << "build", "videos.list" >>)

\* YouTubeAPIScraper.scrape(url, include_comments); w.api_key is self.api_key,
\* w.build, w.videos, w.channels, w.comment_threads are what the client
\* construction and the three requests do (w.comment_threads returns the
\* number of comment threads the video has)
YouTubeAPIScrape(variant, url, include_comments, w) ==
    IF FalsyStr(w.api_key)
    THEN Returned(ScraperResult(FALSE, "YouTube API v3", None,
             Some("YouTube API key not configured. Set YOUTUBE_API_KEY environment variable.")), << >>)
    ELSE LET video_id == extract_video_id(url) IN
         IF IsNone(video_id)
         THEN Returned(ScraperResult(FALSE, "YouTube API v3", None,
                  Some(IF variant = "backend" THEN "Could not extract video ID from URL"
                       ELSE "Could not extract video ID")), << >>)
         ELSE IF ~w.build.ok THEN ApiScrapeExcept(variant, Get(w.build.exc), << "build" >>)
         ELSE IF ~w.videos.ok THEN ApiScrapeExcept(variant, Get(w.videos.exc), << "build", "videos.list" >>)
         ELSE IF Get(w.videos.v) = << >>
         THEN Returned(ScraperResult(FALSE, "YouTube API v3", None, Some("Video not found or is private")),
                       << "build", "videos.list" >>)
         ELSE ApiScrapeChannel(variant, Get(video_id), Get(w.videos.v)[1], include_comments, w,
                               << "build", "videos.list" >>)

(***************************************************************************)
(* TranscriptScraper (youtube-transcript-api); variant "backend":          *)
(* backend/scrapers/transcript_scraper.py, variant "api": api/index.py.    *)
(* A transcript list is the sequence of its tracks in the library's        *)
(* iteration order; a track is [language_code, is_generated, fetch], fetch *)
(* being what track.fetch() does.                                          *)
(***************************************************************************)
TranscriptScraperLangs == << "en", "en-US", "en-GB" >>

FirstIndex(S) == IF S = {} THEN 0 ELSE Min(S)

\* transcript_list.find_transcript([lang]): the manually created track of that
\* language, else the generated one; 0 stands for NoTranscriptFound
FindTranscript(tracks, lang) ==
    LET manual == { i \in 1..Len(tracks) : tracks[i].language_code = lang /\ ~tracks[i].is_generated }
        generated == { i \in 1..Len(tracks) : tracks[i].language_code = lang /\ tracks[i].is_generated }
    IN IF manual # {} THEN Min(manual) ELSE FirstIndex(generated)

RECURSIVE FindOfKind(_, _, _, _)
\* find_manually_created_transcript(langs) / find_generated_transcript(langs):
\* the first language of langs that has a track of the kind
FindOfKind(tracks, langs, k, generated) ==
    IF k > Len(langs) THEN 0
    ELSE LET hit == { i \in 1..Len(tracks) : /\ tracks[i].language_code = langs[k]
                                             /\ tracks[i].is_generated = generated }
         IN IF hit # {} THEN Min(hit) ELSE FindOfKind(tracks, langs, k + 1, generated)

\* the locals transcript_data, used_language, is_auto_generated, an escaping
\* exception if any, and the external calls so far
Picked(data, lang, auto, exc, calls) ==
    [ data |-> data, lang |-> lang, auto |-> auto, exc |-> exc, calls |-> calls ]

\* the name under which a fetch of the track is recorded in the calls
FetchCall(track) ==
    "fetch " \o track.language_code \o (IF track.is_generated THEN " (generated)" ELSE "")

\* not transcript_data
NoData(st) == IsNone(st.data) \/ Get(st.data) = << >>

\* transcript_obj.fetch() inside try/except NoTranscriptFound, on track idx;
\* `auto` is the flag recorded on success
FetchInto(st, tracks, idx, auto) ==
    LET f == tracks[idx].fetch
        calls == Append(st.calls, FetchCall(tracks[idx]))
    IN IF f.ok THEN Picked(f.v, Some(tracks[idx].language_code), auto, None, calls)
       ELSE IF Get(f.exc).type = "NoTranscriptFound" THEN [ st EXCEPT !.calls = calls ]
       ELSE [ st EXCEPT !.exc = f.exc, !.calls = calls ]

RECURSIVE TsByLanguage(_, _, _)
\* for lang in self.preferred_languages: find_transcript([lang]); fetch; break
TsByLanguage(st, tracks, k) ==
    IF k > Len(TranscriptScraperLangs) THEN st
    ELSE LET idx == FindTranscript(tracks, TranscriptScraperLangs[k]) IN
         IF idx = 0 THEN TsByLanguage(st, tracks, k + 1)
         ELSE LET st2 == FetchInto(st, tracks, idx, tracks[idx].is_generated) IN
              IF IsSome(st2.exc) \/ tracks[idx].fetch.ok THEN st2
              ELSE TsByLanguage(st2, tracks, k + 1)

\* one attempt of the second stage: find a track of the kind among the
\* preferred languages and fetch it
TsByKind(st, tracks, generated) ==
    LET idx == FindOfKind(tracks, TranscriptScraperLangs, 1, generated) IN
    IF idx = 0 THEN st ELSE FetchInto(st, tracks, idx, generated)

\* the second stage.  backend: two `if not transcript_data:` blocks in a row;
\* api: a loop over (manual, generated) that breaks once a fetch returned
TsSecondStage(variant, st, tracks) ==
    IF ~NoData(st) THEN st
    ELSE LET m == TsByKind(st, tracks, FALSE)
             idx == FindOfKind(tracks, TranscriptScraperLangs, 1, FALSE)
             fetched == idx # 0 /\ tracks[idx].fetch.ok
         IN IF IsSome(m.exc) THEN m
            ELSE IF variant = "api" /\ fetched THEN m
            ELSE IF variant = "backend" /\ ~NoData(m) THEN m
            ELSE TsByKind(m, tracks, TRUE)

\* if not transcript_data and available_languages: list(transcript_list)[0].fetch()
TsFirstAvailable(st, tracks) ==
    IF NoData(st) /\ tracks # << >>
    THEN LET f == tracks[1].fetch
             calls == Append(st.calls, FetchCall(tracks[1]))
         IN IF f.ok THEN Picked(f.v, Some(tracks[1].language_code), tracks[1].is_generated, None, calls)
            ELSE [ st EXCEPT !.exc = f.exc, !.calls = calls ]
    ELSE st

\* the except clauses of TranscriptScraper.scrape
TranscriptScrapeExcept(variant, exc, calls) ==
    IF exc.type = "TranscriptsDisabled"
    THEN Returned(ScraperResult(FALSE, "youtube-transcript-api", None,
             Some(IF variant = "backend" THEN "Transcripts are disabled for this video"
                  ELSE "Transcripts are disabled")), calls)
    ELSE IF exc.type = "VideoUnavailable"
    THEN Returned(ScraperResult(FALSE, "youtube-transcript-api", None, Some("Video is unavailable")), calls)
    ELSE Returned(ScraperResult(FALSE, "youtube-transcript-api", None,
             Some((IF variant = "backend" THEN "Unexpected error: " ELSE "Error: ") \o exc.msg)), calls)

\* TranscriptScraper.scrape(url); w.list is what self._api.list(video_id) does
TranscriptScrape(variant, url, w) ==
    LET video_id == extract_video_id(url) IN
    IF IsNone(video_id)
    THEN Returned(ScraperResult(FALSE, "youtube-transcript-api", None,
             Some(IF variant = "backend" THEN "Could not extract video ID from URL"
                  ELSE "Could not extract video ID")), << >>)
    ELSE IF ~w.list.ok THEN TranscriptScrapeExcept(variant, Get(w.list.exc), << "api.list" >>)
    ELSE LET tracks == Get(w.list.v)
             a == TsByLanguage(Picked(None, None, FALSE, None, << "api.list" >>), tracks, 1)
             b == IF IsSome(a.exc) THEN a ELSE TsSecondStage(variant, a, tracks)
             c == IF IsSome(b.exc) THEN b ELSE TsFirstAvailable(b, tracks)
         IN IF IsSome(c.exc) THEN TranscriptScrapeExcept(variant, Get(c.exc), c.calls)
            ELSE IF NoData(c)
            THEN Returned(ScraperResult(FALSE, "youtube-transcript-api", None,
                     Some(IF variant = "backend" THEN "No transcripts available for this video"
                          ELSE "No transcripts available")), c.calls)
            ELSE Returned(ScraperResult(TRUE, "youtube-transcript-api",
                     Some([ VideoMetadata(Get(video_id), "", "youtube-transcript-api") EXCEPT
                              !.transcript = Get(c.data),
                              !.raw_data = Some([ transcript_language |-> c.lang,
                                                  is_auto_generated |-> c.auto ]) ]),
                     None), c.calls)

(***************************************************************************)
(* YtdlpTranscriptExtractor (api/index.py).  A caption format is           *)
(* [ext, url, data, fetch]: url says whether fmt.get('url') is truthy,     *)
(* fetch is what httpx.get(fmt['url']) does: it raises, or returns         *)
(* [status, json], json being what resp.json() does.                       *)
(***************************************************************************)
YtdlpTranscriptLangs == << "en", "en-US", "en-GB", "en-orig" >>
HttpOk == 200

\* the locals transcript_data, used_language, is_auto and the calls so far
Track(data, lang, auto, calls) == [ data |-> data, lang |-> lang, auto |-> auto, calls |-> calls ]

RECURSIVE YtRequested(_, _)
\* for lang in preferred: if lang in requested and requested[lang]:
\*     if 'data' in sub_info: parse; is_auto = lang in auto_captions; break
YtRequested(info, k) ==
    IF k > Len(YtdlpTranscriptLangs) THEN Track(<< >>, None, FALSE, << "ydl.extract_info" >>)
    ELSE LET lang == YtdlpTranscriptLangs[k]
             r == info.requested_subtitles[lang]
         IN IF IsSome(r) /\ IsSome(Get(r).data)
            THEN Track(ParseJson3(Get(Get(r).data)), Some(lang),
                       IsSome(info.automatic_captions[lang]), << "ydl.extract_info" >>)
            ELSE YtRequested(info, k + 1)

RECURSIVE YtFetchFormats(_, _, _, _, _)
\* for fmt in source[lang]: if json3 and url: try: get; if 200: parse; break
\*                                             except: continue
YtFetchFormats(st, formats, j, lang, auto) ==
    IF j > Len(formats) THEN st
    ELSE LET f == formats[j] IN
         IF f.ext = "json3" /\ f.url
         THEN LET calls == Append(st.calls, "httpx.get") IN
              IF f.fetch.ok /\ Get(f.fetch.v).status = HttpOk /\ Get(f.fetch.v).json.ok
              THEN Track(ParseJson3(Get(Get(f.fetch.v).json.v)), Some(lang), auto, calls)
              ELSE YtFetchFormats([ st EXCEPT !.calls = calls ], formats, j + 1, lang, auto)
         ELSE YtFetchFormats(st, formats, j + 1, lang, auto)

\* for source, is_auto_source in [(subtitles, False), (auto_captions, True)]
YtFetchSources(st, info, lang) ==
    LET m == IF IsSome(info.subtitles[lang])
             THEN YtFetchFormats(st, Get(info.subtitles[lang]), 1, lang, FALSE) ELSE st
    IN IF m.data # << >> THEN m
       ELSE IF IsSome(info.automatic_captions[lang])
       THEN YtFetchFormats(m, Get(info.automatic_captions[lang]), 1, lang, TRUE)
       ELSE m

RECURSIVE YtFetchLangs(_, _, _)
YtFetchLangs(st, info, k) ==
    IF k > Len(YtdlpTranscriptLangs) THEN st
    ELSE LET m == YtFetchSources(st, info, YtdlpTranscriptLangs[k]) IN
         IF m.data # << >> THEN m ELSE YtFetchLangs(m, info, k + 1)

\* the except clause of YtdlpTranscriptExtractor.extract
YtdlpTranscriptExcept(exc, calls) ==
    Returned(ScraperResult(FALSE, "yt-dlp-transcript", None, Some("Error: " \o exc.msg)), calls)

\* YtdlpTranscriptExtractor.extract(url); w.extract_info is what
\* ydl.extract_info does, w.httpx whether `import httpx` succeeds
YtdlpTranscriptExtract(url, w) ==
    LET video_id == extract_video_id(url) IN
    IF IsNone(video_id)
    THEN Returned(ScraperResult(FALSE, "yt-dlp-transcript", None, Some("Could not extract video ID")), << >>)
    ELSE IF ~w.extract_info.ok
    THEN YtdlpTranscriptExcept(Get(w.extract_info.exc), << "ydl.extract_info" >>)
    ELSE IF IsNone(Get(w.extract_info.v))
    THEN Returned(ScraperResult(FALSE, "yt-dlp-transcript", None, Some("Failed to extract video info")),
                  << "ydl.extract_info" >>)
    ELSE LET info == Get(Get(w.extract_info.v))
             a == YtRequested(info, 1)
         IN IF a.data = << >> /\ ~w.httpx
            THEN YtdlpTranscriptExcept(Exc("ModuleNotFoundError", "No module named 'httpx'"), a.calls)
            ELSE LET b == IF a.data = << >> THEN YtFetchLangs(a, info, 1) ELSE a IN
                 IF b.data = << >>
                 THEN Returned(ScraperResult(FALSE, "yt-dlp-transcript", None,
                          Some("No transcript found via yt-dlp")), b.calls)
                 ELSE IF IsNone(DictGet(info.title, Some("")))
                 THEN YtdlpTranscriptExcept(Exc("ValidationError", "1 validation error for VideoMetadata"),
                                            b.calls)
                 ELSE Returned(ScraperResult(TRUE, "yt-dlp-transcript",
                          Some([ VideoMetadata(Get(video_id), Get(DictGet(info.title, Some(""))),
                                               "yt-dlp-transcript") EXCEPT
                                   !.transcript = b.data,
                                   !.raw_data = Some([ transcript_language |-> b.lang,
                                                       is_auto_generated |-> b.auto ]) ]),
                          None), b.calls)

(***************************************************************************)
(* OpenAIWhisperTranscriber (api/index.py)                                 *)
(***************************************************************************)
MaxAudioBytes == 25 * 1024 * 1024

AudioExts == << "mp3", "m4a", "webm", "opus" >>

\* _download_audio: None when ydl.download raised or no output file with one
\* of the four extensions exists, else the first such file
DownloadAudio(download) ==
    IF download.raises THEN None
    ELSE LET found == { k \in 1..Len(AudioExts) : AudioExts[k] \in download.files } IN
         IF found = {} THEN None ELSE Some(AudioExts[Min(found)])

RECURSIVE WhisperSegments(_)
\* [TranscriptSegment(text.strip(), start, end - start) for seg in segments
\*  if seg.get('text', '').strip()]
WhisperSegments(segments) ==
    IF segments = << >> THEN << >>
    ELSE LET seg == Head(segments) IN
         (IF Strip(seg.text) # ""
          THEN << TranscriptSegment(Strip(seg.text), seg.start, seg.end - seg.start) >>
          ELSE << >>) \o WhisperSegments(Tail(segments))

\* faulty variant of the size check: a file of exactly 25 MB is rejected too
TranscribeAudioRejectAtLimit(w) ==
    IF w.file_size >= MaxAudioBytes
    THEN [ r |-> Throw(Exc("ValueError", "Audio file too large. Max is 25MB.")),
           calls |-> << "os.path.getsize" >> ]
    ELSE [ r |-> w.transcribe, calls |-> << "os.path.getsize", "transcriptions.create" >> ]

\* _transcribe_audio: the size check, then the transcription request
TranscribeAudio(w) ==
    IF w.file_size > MaxAudioBytes
    THEN [ r |-> Throw(Exc("ValueError", "Audio file too large. Max is 25MB.")),
           calls |-> << "os.path.getsize" >> ]
    ELSE [ r |-> w.transcribe, calls |-> << "os.path.getsize", "transcriptions.create" >> ]

\* faulty variant of the except clause: the exception is re-raised
WhisperExceptReraise(exc, calls) == Raised(exc, calls)

\* the except clause of OpenAIWhisperTranscriber.scrape
WhisperExcept(exc, calls) ==
    Returned(ScraperResult(FALSE, "openai-whisper", None, Some("Error: " \o exc.msg)), calls)

\* the inner try ... finally of scrape: transcribe, build the envelope, and
\* in every case remove the audio file; a failing os.remove replaces the
\* result by its own exception
WhisperTranscribeAndCleanup(video_id, w, calls) ==
    LET t == TranscribeAudio(w)
        calls2 == (calls \o t.calls) \o << "os.remove" >>
    IN IF ~w.remove.ok THEN WhisperExcept(Get(w.remove.exc), calls2)
       ELSE IF ~t.r.ok THEN WhisperExcept(Get(t.r.exc), calls2)
       ELSE LET resp == Get(t.r.v)
                segs == WhisperSegments(resp.segments)
                transcript_segments ==
                    IF segs = << >> /\ resp.text # ""
                    THEN << TranscriptSegment(resp.text, 0, 0) >> ELSE segs
            IN Returned(ScraperResult(TRUE, "openai-whisper",
                   Some([ VideoMetadata(video_id, "", "openai-whisper") EXCEPT
                            !.transcript = transcript_segments,
                            !.raw_data = Some([ language |-> resp.language ]) ]),
                   None), calls2)

\* OpenAIWhisperTranscriber.scrape(url); w.api_key is OPENAI_API_KEY,
\* w.download what the audio download leaves, w.file_size the audio file's
\* size, w.transcribe and w.remove what the request and os.remove do
OpenAIWhisperScrape(url, w) ==
    IF FalsyStr(w.api_key)
    THEN Returned(ScraperResult(FALSE, "openai-whisper", None,
             Some("OPENAI_API_KEY not configured. Add it to your environment variables.")), << >>)
    ELSE LET video_id == extract_video_id(url) IN
         IF IsNone(video_id)
         THEN Returned(ScraperResult(FALSE, "openai-whisper", None,
                  Some("Could not extract video ID from URL")), << >>)
         ELSE IF IsNone(DownloadAudio(w.download))
         THEN Returned(ScraperResult(FALSE, "openai-whisper", None,
                  Some("Failed to download audio from YouTube")), << "ydl.download" >>)
         ELSE WhisperTranscribeAndCleanup(Get(video_id), w, << "ydl.download" >>)

(***************************************************************************)
(* AITranscriber (backend/scrapers/ai_transcriber.py)                      *)
(***************************************************************************)
\* faulty variant of is_cloud_environment(): only VERCEL is looked at
IsCloudEnvironmentVercelOnly(env) == ~FalsyStr(env.VERCEL)

\* is_cloud_environment(): any of the three variables is set and not empty
IsCloudEnvironment(env) ==
    ~FalsyStr(env.VERCEL) \/ ~FalsyStr(env.AWS_LAMBDA_FUNCTION_NAME) \/ ~FalsyStr(env.GOOGLE_CLOUD_PROJECT)

\* AITranscriber.is_available(); w.whisper_importable: `import whisper` works
AIIsAvailable(w) == IF IsCloudEnvironment(w.env) THEN FALSE ELSE w.whisper_importable

RECURSIVE AISegments(_)
\* TranscriptSegment(seg["text"].strip(), seg["start"], seg["end"] - seg["start"])
AISegments(segments) ==
    IF segments = << >> THEN << >>
    ELSE << TranscriptSegment(Strip(Head(segments).text), Head(segments).start,
                              Head(segments).end - Head(segments).start) >>
         \o AISegments(Tail(segments))

\* the except clause of AITranscriber.scrape
AIExcept(exc, calls) ==
    Returned(ScraperResult(FALSE, "ai-whisper", None, Some("AI transcription failed: " \o exc.msg)), calls)

\* AITranscriber.scrape(url); w.download_audio, w.load_model, w.transcribe are
\* what download_audio, whisper.load_model and model.transcribe do
AITranscriberScrape(url, w) ==
    IF ~AIIsAvailable(w)
    THEN Returned(ScraperResult(FALSE, "ai-whisper", None,
             Some("AI transcription is not available in cloud environments")), << >>)
    ELSE LET video_id == extract_video_id(url) IN
         IF IsNone(video_id)
         THEN Returned(ScraperResult(FALSE, "ai-whisper", None,
                  Some("Could not extract video ID from URL")), << >>)
         ELSE IF ~w.download_audio.ok
         THEN AIExcept(Get(w.download_audio.exc), << "ydl.extract_info" >>)
         ELSE IF ~w.load_model.ok
         THEN AIExcept(Get(w.load_model.exc), << "ydl.extract_info", "whisper.load_model" >>)
         ELSE IF ~w.transcribe.ok
         THEN AIExcept(Get(w.transcribe.exc),
                       << "ydl.extract_info", "whisper.load_model", "model.transcribe" >>)
         ELSE LET result == Get(w.transcribe.v)
                  video_info == Get(w.download_audio.v)
                  calls == << "ydl.extract_info", "whisper.load_model", "model.transcribe" >>
              IN IF IsNone(DictGet(video_info.title, Some("")))
                 THEN AIExcept(Exc("ValidationError", "1 validation error for VideoMetadata"), calls)
                 ELSE Returned(ScraperResult(TRUE, "ai-whisper",
                          Some([ VideoMetadata(Get(video_id), Get(DictGet(video_info.title, Some(""))),
                                               "ai-whisper") EXCEPT
                                   !.description = DictGet(video_info.description, None),
                                   !.transcript = AISegments(result.segments),
                                   !.raw_data = Some([ transcript_language |-> result.language,
                                                       is_auto_generated |-> FALSE ]) ]),
                          None), calls)

(***************************************************************************)
(* The transcript endpoint, scrape_transcript of api/index.py              *)
(***************************************************************************)
BlockingMessage ==
    "YouTube is blocking requests from this cloud server. Transcript extraction works when running locally. Try: git clone https://github.com/creepyblues/youtube_scraper && cd youtube_scraper && pip install -r requirements.txt && uvicorn backend.main:app"

\* is_cloud_block = "bot" in str(result.error).lower()
\*                  or "blocking" in str(fallback_result.error).lower()
IsCloudBlock(result, fallback_result) ==
    \/ Contains("bot", Lower(Str(result.error)))
    \/ Contains("blocking", Lower(Str(fallback_result.error)))

\* faulty variant of error_msg: only strategy 1's error is reported
CombinedErrorFirstOnly(result, fallback_result) ==
    IF IsCloudBlock(result, fallback_result)
    THEN BlockingMessage
    ELSE "yt-dlp: " \o Str(result.error)

\* error_msg of the combined envelope
CombinedError(result, fallback_result) ==
    IF IsCloudBlock(result, fallback_result)
    THEN BlockingMessage
    ELSE (("yt-dlp: " \o Str(result.error)) \o " | youtube-transcript-api: ") \o Str(fallback_result.error)

\* faulty variant of the handler's end: the combined envelope is returned
\* whatever strategy 2 returned
AfterFallbackAlwaysCombined(result, fallback_result) ==
    ScraperResult(FALSE, "transcript (combined)", None, Some(CombinedError(result, fallback_result)))

\* the handler from `if not fallback_result.success:` to its end
AfterFallback(result, fallback_result) ==
    IF ~fallback_result.success
    THEN ScraperResult(FALSE, "transcript (combined)", None, Some(CombinedError(result, fallback_result)))
    ELSE fallback_result

\* the whole handler on one request: w1 is what yt-dlp and httpx do for
\* strategy 1, w2 what youtube-transcript-api does for strategy 2
scrape_transcript(url, w1, w2) ==
    LET result == YtdlpTranscriptExtract(url, w1) IN
    IF Get(result.env).success THEN result
    ELSE LET fallback_result == TranscriptScrape("api", url, w2) IN
         Returned(AfterFallback(Get(result.env), Get(fallback_result.env)),
                  result.calls \o fallback_result.calls)

(***************************************************************************)
(* The comparator, generate_comparison_summary (variant "backend":         *)
(* backend/main.py, variant "api": api/index.py).  A dict keyed by method  *)
(* is a function whose domain is the set of keys.                          *)
(***************************************************************************)
EmptyDict == [ m \in {} |-> FALSE ]

\* d[k] = v
DictSet(d, k, v) == [ m \in DOMAIN d \cup { k } |-> IF m = k THEN v ELSE d[m] ]

\* any(d.values())
AnyValue(d) == \E m \in DOMAIN d : d[m]

\* result.success and result.data
HasData(result) == result.success /\ IsSome(result.data)

RECURSIVE MethodsFailedAll(_)
\* faulty variant of the methods_failed loop: every envelope is listed
MethodsFailedAll(results) ==
    IF results = << >> THEN << >>
    ELSE << [ method |-> Head(results).method, error |-> Head(results).error ] >>
         \o MethodsFailedAll(Tail(results))

RECURSIVE MethodsSucceeded(_)
\* the methods_succeeded list built by the first loop
MethodsSucceeded(results) ==
    IF results = << >> THEN << >>
    ELSE (IF Head(results).success THEN << Head(results).method >> ELSE << >>)
         \o MethodsSucceeded(Tail(results))

RECURSIVE MethodsFailed(_)
\* the methods_failed list built by the first loop
MethodsFailed(results) ==
    IF results = << >> THEN << >>
    ELSE (IF Head(results).success THEN << >>
          ELSE << [ method |-> Head(results).method, error |-> Head(results).error ] >>)
         \o MethodsFailed(Tail(results))

Fields ==
    << "title", "description", "view_count", "like_count", "comment_count", "transcript",
       "chapters", "tags", "thumbnails", "channel_subscribers", "technical_details", "comments" >>

\* has_technical; backend tests `is not None`, api tests truthiness
HasTechnical(variant, technical) ==
    IF variant = "backend"
    THEN IsSome(technical.fps) \/ IsSome(technical.video_codec) \/ IsSome(technical.bitrate)
    ELSE ~FalsyNum(technical.fps) \/ ~FalsyStr(technical.video_codec) \/ ~FalsyNum(technical.bitrate)

\* the value the second loop stores for a field and one envelope's data, or
\* None when the guarding `if` skips the field
FieldValue(variant, field, data) ==
    CASE field = "title" -> Some(data.title # "")
      [] field = "description" -> Some(~FalsyStr(data.description))
      [] field = "view_count" ->
            IF IsSome(data.engagement) THEN Some(IsSome(Get(data.engagement).view_count)) ELSE None
      [] field = "like_count" ->
            IF IsSome(data.engagement) THEN Some(IsSome(Get(data.engagement).like_count)) ELSE None
      [] field = "comment_count" ->
            IF IsSome(data.engagement) THEN Some(IsSome(Get(data.engagement).comment_count)) ELSE None
      [] field = "transcript" -> Some(Len(data.transcript) > 0)
      [] field = "chapters" -> Some(data.chapters > 0)
      [] field = "tags" ->
            IF IsSome(data.classification) THEN Some(Get(data.classification).tags > 0) ELSE None
      [] field = "thumbnails" -> Some(data.thumbnails > 0)
      [] field = "channel_subscribers" ->
            IF IsSome(data.channel) THEN Some(IsSome(Get(data.channel).subscriber_count)) ELSE None
      [] field = "technical_details" ->
            IF IsSome(data.technical) THEN Some(HasTechnical(variant, Get(data.technical))) ELSE None
      [] field = "comments" -> Some(data.comments > 0)

RECURSIVE FieldAvailabilityKeepFailed(_, _, _, _)
\* faulty variant of the second loop: an envelope without data is not skipped
\* but entered as False
FieldAvailabilityKeepFailed(variant, field, results, d) ==
    IF results = << >> THEN d
    ELSE LET result == Head(results) IN
         IF ~HasData(result)
         THEN FieldAvailabilityKeepFailed(variant, field, Tail(results), DictSet(d, result.method, FALSE))
         ELSE LET v == FieldValue(variant, field, Get(result.data)) IN
              FieldAvailabilityKeepFailed(variant, field, Tail(results),
                                          IF IsSome(v) THEN DictSet(d, result.method, Get(v)) ELSE d)

RECURSIVE FieldAvailability(_, _, _, _)
\* field_availability[field] after the second loop ran over results
FieldAvailability(variant, field, results, d) ==
    IF results = << >> THEN d
    ELSE LET result == Head(results) IN
         IF ~HasData(result) THEN FieldAvailability(variant, field, Tail(results), d)
         ELSE LET v == FieldValue(variant, field, Get(result.data)) IN
              FieldAvailability(variant, field, Tail(results),
                                IF IsSome(v) THEN DictSet(d, result.method, Get(v)) ELSE d)

\* faulty variant of the count test: a tie replaces the entry
BetterCountOrEqual(entry, count) == IsNone(entry) \/ count >= Get(entry).count

\* "x" not in best_for or count > best_for["x"]["count"]
BetterCount(entry, count) == IsNone(entry) \/ count > Get(entry).count

\* faulty variant of the technical_details step: the first method stays
TechnicalStepKeepFirst(best_for, result) ==
    LET technical == Get(result.data).technical IN
    IF IsSome(technical) /\ IsSome(Get(technical).fps) /\ IsNone(best_for.technical_details)
    THEN [ best_for EXCEPT !.technical_details = Some([ method |-> result.method ]) ]
    ELSE best_for

\* the three blocks of the best_for loop body, for an envelope with data
TranscriptStep(best_for, result) ==
    LET count == Len(Get(result.data).transcript) IN
    IF count > 0 /\ BetterCount(best_for.transcript, count)
    THEN [ best_for EXCEPT !.transcript = Some([ method |-> result.method, count |-> count ]) ]
    ELSE best_for

TechnicalStep(best_for, result) ==
    LET technical == Get(result.data).technical IN
    IF IsSome(technical) /\ IsSome(Get(technical).fps)
    THEN [ best_for EXCEPT !.technical_details = Some([ method |-> result.method ]) ]
    ELSE best_for

TagsStep(best_for, result) ==
    LET classification == Get(result.data).classification IN
    IF IsSome(classification) /\ Get(classification).tags > 0
          /\ BetterCount(best_for.tags, Get(classification).tags)
    THEN [ best_for EXCEPT !.tags = Some([ method |-> result.method,
                                           count |-> Get(classification).tags ]) ]
    ELSE best_for

RECURSIVE BestFor(_, _)
\* best_for after the third loop; an absent key is None
BestFor(results, best_for) ==
    IF results = << >> THEN best_for
    ELSE BestFor(Tail(results),
                 IF HasData(Head(results))
                 THEN TagsStep(TechnicalStep(TranscriptStep(best_for, Head(results)), Head(results)),
                               Head(results))
                 ELSE best_for)

generate_comparison_summary(variant, results) ==
    LET field_availability == [ i \in 1..Len(Fields) |-> FieldAvailability(variant, Fields[i], results, EmptyDict) ]
    IN [ methods_succeeded |-> MethodsSucceeded(results),
         methods_failed |-> MethodsFailed(results),
         field_comparison |-> field_availability,
         best_for |-> BestFor(results, [ transcript |-> None, technical_details |-> None, tags |-> None ]),
         total_unique_fields |-> Cardinality({ i \in 1..Len(Fields) : AnyValue(field_availability[i]) }) ]

(***************************************************************************)
(* The comparison endpoint, compare_scrapers, and the executor it submits  *)
(* to: ThreadPoolExecutor(max_workers=3), a FIFO queue of work items       *)
(* served by at most three worker threads.  A work item is << r, slot >>:  *)
(* the slot-th extractor call of request r.                                *)
(***************************************************************************)
MaxWorkers == 3

\* the extractor call behind each of the three run_in_executor submissions;
\* req.w holds, per slot, what the external services do for that call
RunExtractor(prog, slot, req) ==
    CASE slot = 1 -> YtdlpScrape(prog, req.url, req.w[1])
      [] slot = 2 -> YouTubeAPIScrape(prog, req.url, req.include_comments, req.w[2])
      [] slot = 3 -> IF prog = "backend" THEN TranscriptScrape(prog, req.url, req.w[3])
                     ELSE YtdlpTranscriptExtract(req.url, req.w[3])

\* faulty variant of gather: the results come in the order the calls finished
GatherAsCompleted(r, fut, done) ==
    [ k \in 1..Len(done) |-> Get(Get(fut[<< r, done[k] >>]).env) ]

\* await asyncio.gather(f1, f2, f3): the results of the three futures in the
\* order the futures were passed, whatever the order `done` they finished in
Gather(r, fut, done) ==
    [ slot \in 1..3 |-> Get(Get(fut[<< r, slot >>]).env) ]

\* the ComparisonResult the handler returns once gather has returned
ComparisonResult(prog, req, gathered) ==
    [ video_url |-> req.url, results |-> gathered,
      comparison_summary |-> generate_comparison_summary(prog, gathered) ]

(***************************************************************************)
(* Inputs: the urls, and what the external services may answer             *)
(***************************************************************************)
MaxEvents == 2      \* caption events / Whisper segments per payload
MaxTracks == 2      \* tracks in a transcript list

Variants == { "backend", "api" }

Urls == { "https://youtu.be/dQw4w9WgXcQ", "https://example.com/" }

\* str(e) of the exceptions the external libraries raise
ErrTexts == { "Sign in to confirm you're not a bot",
              "YouTube is blocking requests from your IP",
              "timed out" }

SeqsUpTo(S, n) == UNION { [1..k -> S] : k \in 0..n }

EventKinds ==
    { [ segs |-> Some(<< "a", "b " >>), tStartMs |-> t, dDurationMs |-> 500 ] : t \in { 0, 1000 } }
    \cup { [ segs |-> Some(<< " " >>), tStartMs |-> 0, dDurationMs |-> 500 ],
           [ segs |-> None, tStartMs |-> 0, dDurationMs |-> 0 ] }

EventSeqs == SeqsUpTo(EventKinds, MaxEvents)

\* a subtitle payload: text that is not a dict, or a dict with events
JsonDatas == { [ isdict |-> FALSE, events |-> << >> ] }
             \cup { [ isdict |-> TRUE, events |-> e ] : e \in EventSeqs }

\* yt-dlp info records handed to YtdlpScraper._parse_info
EmbeddedMaps ==
    { NoSubs } \cup
    { [ NoSubs EXCEPT ![l] = Some(<< [ ext |-> "json3", data |-> Some([ isdict |-> TRUE, events |-> e ]) ] >>) ] :
        l \in { "en-US" }, e \in EventSeqs }
    \cup { [ NoSubs EXCEPT !["en"] = Some(<< [ ext |-> "vtt", data |-> None ] >>) ] }

YtdlpInfos ==
    { [ title |-> ti, description |-> Val("d"), height |-> h, age_limit |-> al, fps |-> f,
        vcodec |-> Absent, tbr |-> Absent, tags |-> tg, comments |-> c, thumbnails |-> th,
        chapters |-> Null, view_count |-> Val(5), like_count |-> Null, comment_count |-> Absent,
        channel_follower_count |-> Absent, subtitles |-> NoSubs, automatic_captions |-> ac ] :
        ti \in { Val("t"), Null }, h \in { Absent, Null, Val(480), Val(720) },
        al \in { Absent, Null, Val(18) }, f \in { Null, Val(30) }, tg \in { Null, Val(2) },
        c \in { Absent, Val(CommentCap + 1) }, th \in { Null, Val(1) }, ac \in EmbeddedMaps }

YtdlpWorlds ==
    { [ extract_info |-> Throw(Exc(t, m)) ] : t \in { "DownloadError", "ExtractorError" }, m \in ErrTexts }
    \cup { [ extract_info |-> Ret(None) ] }
    \cup { [ extract_info |-> Ret(Some(i)) ] : i \in YtdlpInfos }

\* YouTube Data API answers
Snippets ==
    { [ channelId |-> ch, channelTitle |-> Some("Chan"), title |-> Some("t"),
        description |-> Some("d"), tags |-> tg, thumbnails |-> 1 ] :
        ch \in { None, Some("UC1") }, tg \in { 0, 2 } }

VideoDatas ==
    { [ snippet |-> sn, statistics |-> [ viewCount |-> Some(5), likeCount |-> None, commentCount |-> Some(0) ],
        definition |-> Some("hd") ] : sn \in { None } \cup { Some(x) : x \in Snippets } }

ChannelDatas ==
    { [ id |-> Some("UC1"), title |-> Some("Channel"), subscriberCount |-> sc ] : sc \in { None, Some(7) } }

ApiWorlds ==
    { [ api_key |-> key, build |-> b, videos |-> v, channels |-> ch, comment_threads |-> ct ] :
        key \in { None, Some(""), Some("k") },
        b \in { Ret("client"), Throw(Exc("HttpError", "timed out")) },
        v \in { Throw(Exc("HttpError", "quotaExceeded")), Throw(Exc("TimeoutError", "timed out")),
                Ret(<< >>) } \cup { Ret(<< vd >>) : vd \in VideoDatas },
        ch \in { Throw(Exc("HttpError", "quotaExceeded")), Ret(<< >>) }
               \cup { Ret(<< cd >>) : cd \in ChannelDatas },
        ct \in { Throw(Exc("HttpError", "commentsDisabled")), Throw(Exc("KeyError", "'topLevelComment'")),
                 Ret(0), Ret(3), Ret(MaxResults + 1) } }

\* youtube-transcript-api answers
ItemSeqs ==
    { << >>, << TranscriptSegment("hello", 1, 2) >>,
      << TranscriptSegment("hello", 1, 2), TranscriptSegment("world", 0, 1) >> }

TrackKinds ==
    { [ language_code |-> l, is_generated |-> g, fetch |-> f ] :
        l \in { "en", "en-US", "de" }, g \in BOOLEAN,
        f \in { Throw(Exc("NoTranscriptFound", "No transcripts were found")),
                Throw(Exc("RequestBlocked", "YouTube is blocking requests from your IP")) }
              \cup { Ret(d) : d \in ItemSeqs } }

\* the library lists manually created tracks before generated ones, and
\* holds at most one track per language and kind
TrackLists ==
    { t \in SeqsUpTo(TrackKinds, MaxTracks) :
        /\ \A i, j \in 1..Len(t) : i < j => ~(t[i].is_generated /\ ~t[j].is_generated)
        /\ \A i, j \in 1..Len(t) :
               i # j => ~(t[i].language_code = t[j].language_code /\ t[i].is_generated = t[j].is_generated) }

TranscriptWorlds ==
    { [ list |-> Throw(e) ] : e \in { Exc("TranscriptsDisabled", "Subtitles are disabled for this video"),
                                      Exc("VideoUnavailable", "The video is no longer available"),
                                      Exc("RequestBlocked", "YouTube is blocking requests from your IP") } }
    \cup { [ list |-> Ret(t) ] : t \in TrackLists }

\* yt-dlp answers to the transcript extractor
JsonSmall ==
    { [ isdict |-> FALSE, events |-> << >> ],
      [ isdict |-> TRUE, events |-> << [ segs |-> Some(<< " " >>), tStartMs |-> 0, dDurationMs |-> 500 ] >> ],
      [ isdict |-> TRUE, events |-> << [ segs |-> Some(<< "a", "b " >>), tStartMs |-> 0, dDurationMs |-> 500 ] >> ] }

FmtKinds ==
    { [ ext |-> "vtt", url |-> TRUE, data |-> None, fetch |-> Throw(Exc("ConnectError", "timed out")) ],
      [ ext |-> "json3", url |-> FALSE, data |-> None, fetch |-> Throw(Exc("ConnectError", "timed out")) ],
      [ ext |-> "json3", url |-> TRUE, data |-> None, fetch |-> Throw(Exc("ConnectError", "timed out")) ],
      [ ext |-> "json3", url |-> TRUE, data |-> None,
        fetch |-> Ret([ status |-> 429, json |-> Throw(Exc("JSONDecodeError", "Expecting value")) ]) ],
      [ ext |-> "json3", url |-> TRUE, data |-> None,
        fetch |-> Ret([ status |-> HttpOk, json |-> Throw(Exc("JSONDecodeError", "Expecting value")) ]) ] }
    \cup { [ ext |-> "json3", url |-> TRUE, data |-> None,
             fetch |-> Ret([ status |-> HttpOk, json |-> Ret(jd) ]) ] : jd \in JsonSmall }

FailingFmt ==
    [ ext |-> "json3", url |-> TRUE, data |-> None, fetch |-> Throw(Exc("ConnectError", "timed out")) ]

FormatLists == { << >> } \cup { << f >> : f \in FmtKinds } \cup { << FailingFmt, f >> : f \in FmtKinds }

CaptionMaps ==
    { NoSubs } \cup { [ NoSubs EXCEPT ![l] = Some(fl) ] : l \in { "en", "en-US" }, fl \in FormatLists }

RequestedMaps ==
    { NoSubs, [ NoSubs EXCEPT !["en"] = Some([ data |-> None ]) ] }
    \cup { [ NoSubs EXCEPT ![l] = Some([ data |-> Some(jd) ]) ] : l \in { "en-US" }, jd \in JsonSmall }
    \cup { [ NoSubs EXCEPT !["en"] = Some([ data |-> Some([ isdict |-> TRUE, events |-> << >> ]) ]),
                           !["en-US"] = Some([ data |-> Some(jd) ]) ] : jd \in JsonSmall }

YtdlpTranscriptInfos ==
    { [ title |-> ti, subtitles |-> sb, automatic_captions |-> ac, requested_subtitles |-> rq ] :
        ti \in { Val("t"), Null }, sb \in CaptionMaps, ac \in CaptionMaps, rq \in RequestedMaps }

YtdlpTranscriptWorlds ==
    { [ extract_info |-> x, httpx |-> h ] :
        x \in { Throw(Exc("DownloadError", m)) : m \in ErrTexts } \cup { Ret(None) }
              \cup { Ret(Some(i)) : i \in YtdlpTranscriptInfos },
        h \in BOOLEAN }

\* what the audio download, the size probe, the OpenAI request and os.remove do
WhisperSegs ==
    SeqsUpTo({ [ start |-> 0, end |-> 2, text |-> " hi " ], [ start |-> 2, end |-> 3, text |-> " " ] }, MaxEvents)

WhisperWorlds ==
    { [ api_key |-> key, download |-> [ raises |-> r, files |-> fs ], file_size |-> sz,
        transcribe |-> t, remove |-> rm ] :
        key \in { None, Some(""), Some("sk-1") }, r \in BOOLEAN,
        fs \in { {}, { "part" }, { "webm" }, { "mp3", "webm" } },
        sz \in { MaxAudioBytes, MaxAudioBytes + 1 },
        t \in { Throw(Exc("APIError", "Rate limit reached")), Throw(Exc("APIError", "timed out")) }
              \cup { Ret([ text |-> tx, language |-> Some("en"), segments |-> sg ]) :
                       tx \in { "", "hi" }, sg \in WhisperSegs },
        rm \in { Ret("removed"), Throw(Exc("PermissionError", "Permission denied")) } }

\* the process environment and what the local Whisper pipeline does
AIWorlds ==
    { [ env |-> [ VERCEL |-> v, AWS_LAMBDA_FUNCTION_NAME |-> a, GOOGLE_CLOUD_PROJECT |-> g ],
        whisper_importable |-> imp, download_audio |-> d, load_model |-> lm, transcribe |-> t ] :
        v \in { None, Some(""), Some("1") }, a \in { None, Some("fn") }, g \in { None, Some("proj") },
        imp \in BOOLEAN,
        d \in { Throw(Exc("DownloadError", "timed out")),
                Ret([ title |-> Val("t"), description |-> Val("d") ]),
                Ret([ title |-> Null, description |-> Absent ]) },
        lm \in { Throw(Exc("RuntimeError", "out of memory")), Ret("model") },
        t \in { Throw(Exc("RuntimeError", "ffmpeg not found")) }
              \cup { Ret([ segments |-> sg, language |-> Some("en") ]) : sg \in WhisperSegs } }

\* what the two strategies of the transcript endpoint may meet
EndpointErrTexts == ErrTexts \cup { "Bot check required", "IP BLOCKING detected" }

EndpointInfos ==
    { [ title |-> Val("t"), subtitles |-> sb, automatic_captions |-> NoSubs, requested_subtitles |-> rq ] :
        sb \in { NoSubs } \cup { [ NoSubs EXCEPT !["en"] = Some(<< f >>) ] : f \in FmtKinds },
        rq \in RequestedMaps }

EndpointYtdlpWorlds ==
    { [ extract_info |-> x, httpx |-> h ] :
        x \in { Throw(Exc("DownloadError", m)) : m \in EndpointErrTexts } \cup { Ret(None) }
              \cup { Ret(Some(i)) : i \in EndpointInfos },
        h \in BOOLEAN }

EndpointTranscriptWorlds ==
    { [ list |-> Throw(e) ] :
        e \in { Exc("TranscriptsDisabled", "Subtitles are disabled for this video"),
                Exc("VideoUnavailable", "The video is no longer available") }
              \cup { Exc("RequestBlocked", m) : m \in EndpointErrTexts } }
    \cup { [ list |-> Ret(t) ] : t \in { x \in TrackLists : Len(x) <= 1 } }

\* envelopes handed to the comparator: the i-th is tagged with the i-th method
MaxCount == 2       \* transcript segments / tags of one envelope

SummaryMethods == << "yt-dlp", "YouTube API v3", "youtube-transcript-api" >>

Segments(n) == [ i \in 1..n |-> TranscriptSegment("s", i, 1) ]

\* a transcript-only record, as the transcript extractors build it, or a record
\* with classification and technical details, as the two scrapers build it
SummaryDatas(method) ==
    { [ VideoMetadata("dQw4w9WgXcQ", "", method) EXCEPT !.transcript = Segments(n) ] : n \in 0..MaxCount }
    \cup
    { [ VideoMetadata("dQw4w9WgXcQ", "t", method) EXCEPT
          !.transcript = Segments(n),
          !.classification = Some([ tags |-> g, is_age_restricted |-> FALSE ]),
          !.technical = Some([ definition |-> "hd", fps |-> f, video_codec |-> None, bitrate |-> None ]) ] :
        n \in 0..MaxCount, g \in 0..MaxCount, f \in { None, Some(0), Some(30) } }

SummaryEnvelopes(method) ==
    { ScraperResult(FALSE, method, None, Some("Error: timed out")) }
    \cup { ScraperResult(TRUE, method, Some(d), None) : d \in SummaryDatas(method) }

SummaryInputs ==
    UNION { { r \in [ 1..k -> UNION { SummaryEnvelopes(SummaryMethods[i]) : i \in 1..Len(SummaryMethods) } ] :
                \A i \in 1..k : r[i].method = SummaryMethods[i] } : k \in 0..Len(SummaryMethods) }

\* what the three extractors of one compare request may meet: each either
\* fails at its first external step or is answered in full
CompareInfo ==
    [ title |-> Val("t"), description |-> Val("d"), height |-> Val(HdHeight), age_limit |-> Absent,
      fps |-> Val(30), vcodec |-> Absent, tbr |-> Absent, tags |-> Val(2), comments |-> Absent,
      thumbnails |-> Val(1), chapters |-> Null, view_count |-> Val(5), like_count |-> Null,
      comment_count |-> Absent, channel_follower_count |-> Absent,
      subtitles |-> NoSubs, automatic_captions |-> NoSubs ]

CompareYtdlpWorld(ok) ==
    IF ok THEN [ extract_info |-> Ret(Some(CompareInfo)) ]
    ELSE [ extract_info |-> Throw(Exc("DownloadError", "timed out")) ]

CompareApiWorld(ok) ==
    [ api_key |-> IF ok THEN Some("k") ELSE None, build |-> Ret("client"),
      videos |-> Ret(<< [ snippet |-> Some([ channelId |-> Some("UC1"), channelTitle |-> Some("Chan"),
                                             title |-> Some("t"), description |-> Some("d"),
                                             tags |-> 1, thumbnails |-> 1 ]),
                          statistics |-> [ viewCount |-> Some(5), likeCount |-> None,
                                           commentCount |-> Some(0) ],
                          definition |-> Some("hd") ] >>),
      channels |-> Ret(<< [ id |-> Some("UC1"), title |-> Some("Channel"), subscriberCount |-> Some(7) ] >>),
      comment_threads |-> Ret(0) ]

CompareTranscriptWorld(ok) ==
    IF ok
    THEN [ list |-> Ret(<< [ language_code |-> "en", is_generated |-> FALSE,
                             fetch |-> Ret(<< TranscriptSegment("hello", 0, 1),
                                              TranscriptSegment("world", 1, 2) >>) ] >>) ]
    ELSE [ list |-> Throw(Exc("TranscriptsDisabled", "Subtitles are disabled for this video")) ]

CompareYtdlpTranscriptWorld(ok) ==
    IF ok
    THEN [ extract_info |-> Ret(Some([ title |-> Val("t"), subtitles |-> NoSubs, automatic_captions |-> NoSubs,
                                       requested_subtitles |->
                                           [ NoSubs EXCEPT !["en"] = Some([ data |-> Some(
                                               [ isdict |-> TRUE,
                                                 events |-> << [ segs |-> Some(<< "a", "b " >>), tStartMs |-> 0,
                                                                 dDurationMs |-> 500 ] >> ]) ]) ] ])),
           httpx |-> TRUE ]
    ELSE [ extract_info |-> Throw(Exc("DownloadError", "Sign in to confirm you're not a bot")),
           httpx |-> TRUE ]

\* which of the three calls of one request are answered: each extractor both
\* fails and succeeds, next to a call that does the opposite
CompareAnswered == { << TRUE, FALSE, TRUE >>, << FALSE, TRUE, FALSE >> }

CompareRequests(prog) ==
    { [ pc |-> "gather", url |-> "https://youtu.be/dQw4w9WgXcQ", include_comments |-> FALSE,
        w |-> << CompareYtdlpWorld(ok[1]), CompareApiWorld(ok[2]),
                 IF prog = "backend" THEN CompareTranscriptWorld(ok[3])
                 ELSE CompareYtdlpTranscriptWorld(ok[3]) >> ] : ok \in CompareAnswered }

(***************************************************************************)
(* The state before any request                                            *)
(***************************************************************************)
MaxRequests == 2    \* compare requests in flight at once
Reqs == 1..MaxRequests
Slots == 1..3       \* the three extractors one compare request dispatches
Tasks == Reqs \X Slots

ExtractIdle == last = [ op |-> "idle" ]

TranscriptIdle ==
    /\ tpc = "idle" /\ treq = None /\ s1 = None /\ s2 = None
    /\ invoked = << >> /\ response = None

CompareIdle ==
    /\ creq = [ r \in Reqs |-> [ pc |-> "idle" ] ]
    /\ queue = << >> /\ running = {}
    /\ finished = [ r \in Reqs |-> << >> ]
    /\ future = [ t \in Tasks |-> None ]
    /\ cresp = [ r \in Reqs |-> None ]

SummaryIdle == sreq = None /\ sres = None

MaxInvocations == 2 \* invocations of the hosted transcriber in flight at once
MaxClock == 1       \* seconds the wall clock advances
Invocations == 1..MaxInvocations

WhisperIdle ==
    /\ clock = 0 /\ disk = {}
    /\ wcall = [ i \in Invocations |-> [ pc |-> "idle" ] ]

PureIdle == fcall = None

(***************************************************************************)
(* SpecExtract: one extractor call at a time, on any url and any answers   *)
(* of the external services                                                *)
(***************************************************************************)
InitExtract == ExtractIdle /\ TranscriptIdle /\ program = "api" /\ CompareIdle /\ SummaryIdle
              /\ WhisperIdle /\ PureIdle

CallYtdlpScraper ==
    /\ last.op = "idle"
    /\ \E variant \in Variants, url \in Urls, w \in YtdlpWorlds :
           last' = [ op |-> "YtdlpScraper.scrape", variant |-> variant, url |-> url, w |-> w,
                     out |-> YtdlpScrape(variant, url, w) ]
    /\ UNCHANGED << transcriptVars, compareVars, summaryVars, whisperVars, pureVars >>

CallYouTubeAPIScraper ==
    /\ last.op = "idle"
    /\ \E variant \in Variants, url \in Urls, include_comments \in BOOLEAN, w \in ApiWorlds :
           last' = [ op |-> "YouTubeAPIScraper.scrape", variant |-> variant, url |-> url, w |-> w,
                     include_comments |-> include_comments,
                     out |-> YouTubeAPIScrape(variant, url, include_comments, w) ]
    /\ UNCHANGED << transcriptVars, compareVars, summaryVars, whisperVars, pureVars >>

CallTranscriptScraper ==
    /\ last.op = "idle"
    /\ \E variant \in Variants, url \in Urls, w \in TranscriptWorlds :
           last' = [ op |-> "TranscriptScraper.scrape", variant |-> variant, url |-> url, w |-> w,
                     out |-> TranscriptScrape(variant, url, w) ]
    /\ UNCHANGED << transcriptVars, compareVars, summaryVars, whisperVars, pureVars >>

CallYtdlpTranscriptExtractor ==
    /\ last.op = "idle"
    /\ \E url \in Urls, w \in YtdlpTranscriptWorlds :
           last' = [ op |-> "YtdlpTranscriptExtractor.extract", variant |-> "api", url |-> url, w |-> w,
                     out |-> YtdlpTranscriptExtract(url, w) ]
    /\ UNCHANGED << transcriptVars, compareVars, summaryVars, whisperVars, pureVars >>

CallOpenAIWhisperTranscriber ==
    /\ last.op = "idle"
    /\ \E url \in Urls, w \in WhisperWorlds :
           last' = [ op |-> "OpenAIWhisperTranscriber.scrape", variant |-> "api", url |-> url, w |-> w,
                     out |-> OpenAIWhisperScrape(url, w) ]
    /\ UNCHANGED << transcriptVars, compareVars, summaryVars, whisperVars, pureVars >>

CallAITranscriber ==
    /\ last.op = "idle"
    /\ \E url \in Urls, w \in AIWorlds :
           last' = [ op |-> "AITranscriber.scrape", variant |-> "backend", url |-> url, w |-> w,
                     out |-> AITranscriberScrape(url, w) ]
    /\ UNCHANGED << transcriptVars, compareVars, summaryVars, whisperVars, pureVars >>

CallScrapeTranscript ==
    /\ last.op = "idle"
    /\ \E url \in Urls, w1 \in EndpointYtdlpWorlds, w2 \in EndpointTranscriptWorlds :
           last' = [ op |-> "scrape_transcript", variant |-> "api", url |-> url, w |-> w1, w2 |-> w2,
                     out |-> scrape_transcript(url, w1, w2) ]
    /\ UNCHANGED << transcriptVars, compareVars, summaryVars, whisperVars, pureVars >>

\* the caller has taken the result; the next call may start
ExtractReturn ==
    /\ last.op # "idle"
    /\ last' = [ op |-> "idle" ]
    /\ UNCHANGED << transcriptVars, compareVars, summaryVars, whisperVars, pureVars >>

NextExtract ==
    \/ CallYtdlpScraper
    \/ CallYouTubeAPIScraper
    \/ CallTranscriptScraper
    \/ CallYtdlpTranscriptExtractor
    \/ CallOpenAIWhisperTranscriber
    \/ CallAITranscriber
    \/ CallScrapeTranscript
    \/ ExtractReturn

SpecExtract == InitExtract /\ [][NextExtract]_vars

(***************************************************************************)
(* SpecTranscript: the scrape_transcript handler, one step per awaited     *)
(* strategy                                                                *)
(***************************************************************************)
InitTranscript == ExtractIdle /\ TranscriptIdle /\ program = "api" /\ CompareIdle /\ SummaryIdle
              /\ WhisperIdle /\ PureIdle

\* POST /api/scrape/transcript arrives
TranscriptReceive ==
    /\ tpc = "idle"
    /\ \E url \in Urls, w1 \in EndpointYtdlpWorlds, w2 \in EndpointTranscriptWorlds :
           treq' = Some([ url |-> url, w1 |-> w1, w2 |-> w2 ])
    /\ tpc' = "strategy1"
    /\ UNCHANGED << s1, s2, invoked, response >>
    /\ UNCHANGED << extractVars, compareVars, summaryVars, whisperVars, pureVars >>

\* result = await run_in_executor(ytdlp_extractor.extract); if result.success: return result
TranscriptStrategy1 ==
    /\ tpc = "strategy1"
    /\ LET result == YtdlpTranscriptExtract(Get(treq).url, Get(treq).w1) IN
       /\ s1' = Some(result)
       /\ invoked' = Append(invoked, "YtdlpTranscriptExtractor.extract")
       /\ IF Get(result.env).success
          THEN response' = result.env /\ tpc' = "done"
          ELSE response' = response /\ tpc' = "strategy2"
    /\ UNCHANGED << treq, s2 >>
    /\ UNCHANGED << extractVars, compareVars, summaryVars, whisperVars, pureVars >>

\* fallback_result = await run_in_executor(scraper.scrape); the combined
\* failure or fallback_result is returned
TranscriptStrategy2 ==
    /\ tpc = "strategy2"
    /\ LET fallback_result == TranscriptScrape("api", Get(treq).url, Get(treq).w2) IN
       /\ s2' = Some(fallback_result)
       /\ invoked' = Append(invoked, "TranscriptScraper.scrape")
       /\ response' = Some(AfterFallback(Get(Get(s1).env), Get(fallback_result.env)))
    /\ tpc' = "done"
    /\ UNCHANGED << treq, s1 >>
    /\ UNCHANGED << extractVars, compareVars, summaryVars, whisperVars, pureVars >>

\* the response has been sent; the handler's locals are gone
TranscriptReply ==
    /\ tpc = "done"
    /\ tpc' = "idle" /\ treq' = None /\ s1' = None /\ s2' = None
    /\ invoked' = << >> /\ response' = None
    /\ UNCHANGED << extractVars, compareVars, summaryVars, whisperVars, pureVars >>

NextTranscript ==
    \/ TranscriptReceive
    \/ TranscriptStrategy1
    \/ TranscriptStrategy2
    \/ TranscriptReply

SpecTranscript == InitTranscript /\ [][NextTranscript]_vars

(***************************************************************************)
(* Properties of the extractors (SpecExtract)                              *)
(***************************************************************************)
ExtractorOps ==
    { "YtdlpScraper.scrape", "YouTubeAPIScraper.scrape", "TranscriptScraper.scrape",
      "YtdlpTranscriptExtractor.extract", "OpenAIWhisperTranscriber.scrape", "AITranscriber.scrape" }

\* the call c was issued during the invocation
Issued(out, c) == \E i \in 1..Len(out.calls) : out.calls[i] = c

CountCalls(out, c) == Cardinality({ i \in 1..Len(out.calls) : out.calls[i] = c })

Succeeded(out) == ~out.raised /\ Get(out.env).success
Failed(out) == ~out.raised /\ ~Get(out.env).success

EnvelopeExclusive(env) ==
    /\ env.success => IsSome(env.data) /\ IsNone(env.error)
    /\ ~env.success => IsNone(env.data) /\ IsSome(env.error)

\* C1: every envelope returned by an extractor or by the transcript endpoint
\* has data and no error when success is true, and an error and no data when
\* success is false.
C1_EnvelopeExclusive ==
    last.op # "idle" /\ ~last.out.raised => EnvelopeExclusive(Get(last.out.env))

\* yt-dlp raised in YtdlpScraper.scrape and the envelope is the failed one
C1_Witness ==
    /\ last.op = "YtdlpScraper.scrape"
    /\ Issued(last.out, "ydl.extract_info") /\ ~last.w.extract_info.ok
    /\ Failed(last.out)
    /\ IsSome(Get(last.out.env).error) /\ IsNone(Get(last.out.env).data)

\* An external step of the invocation failed and the extractor has no handler
\* that lets the attempt go on after it
YtdlpStepFailed ==
    /\ last.op = "YtdlpScraper.scrape"
    /\ \/ IsNone(extract_video_id(last.url))
       \/ /\ Issued(last.out, "ydl.extract_info")
          /\ \/ ~last.w.extract_info.ok
             \/ IsNone(Get(last.w.extract_info.v))
             \/ ~YtdlpParseInfo(last.variant, Get(Get(last.w.extract_info.v)), "id").ok

ApiStepFailed ==
    /\ last.op = "YouTubeAPIScraper.scrape"
    /\ \/ Issued(last.out, "build") /\ ~last.w.build.ok
       \/ Issued(last.out, "videos.list") /\ ~last.w.videos.ok
       \/ Issued(last.out, "channels.list") /\ ~last.w.channels.ok
       \/ /\ Issued(last.out, "commentThreads.list") /\ ~last.w.comment_threads.ok
          /\ Get(last.w.comment_threads.exc).type # "HttpError"

TranscriptStepFailed ==
    /\ last.op = "TranscriptScraper.scrape"
    /\ \/ IsNone(extract_video_id(last.url))
       \/ Issued(last.out, "api.list") /\ ~last.w.list.ok
       \/ /\ last.w.list.ok
          /\ \E i \in 1..Len(Get(last.w.list.v)) :
                LET track == Get(last.w.list.v)[i] IN
                /\ Issued(last.out, FetchCall(track)) /\ ~track.fetch.ok
                /\ Get(track.fetch.exc).type # "NoTranscriptFound"

YtdlpTranscriptStepFailed ==
    /\ last.op = "YtdlpTranscriptExtractor.extract"
    /\ \/ IsNone(extract_video_id(last.url))
       \/ /\ Issued(last.out, "ydl.extract_info")
          /\ ~last.w.extract_info.ok \/ IsNone(Get(last.w.extract_info.v))

WhisperStepFailed ==
    /\ last.op = "OpenAIWhisperTranscriber.scrape"
    /\ \/ Issued(last.out, "ydl.download") /\ IsNone(DownloadAudio(last.w.download))
       \/ Issued(last.out, "os.path.getsize") /\ last.w.file_size > MaxAudioBytes
       \/ Issued(last.out, "transcriptions.create") /\ ~last.w.transcribe.ok
       \/ Issued(last.out, "os.remove") /\ ~last.w.remove.ok

AIStepFailed ==
    /\ last.op = "AITranscriber.scrape"
    /\ \/ Issued(last.out, "ydl.extract_info") /\ ~last.w.download_audio.ok
       \/ Issued(last.out, "whisper.load_model") /\ ~last.w.load_model.ok
       \/ Issued(last.out, "model.transcribe") /\ ~last.w.transcribe.ok

FatalStepFailed ==
    \/ YtdlpStepFailed \/ ApiStepFailed \/ TranscriptStepFailed
    \/ YtdlpTranscriptStepFailed \/ WhisperStepFailed \/ AIStepFailed

\* An external step failed at a place where the extractor goes on: the comment
\* threads request answered with an HttpError, a track fetch raised
\* NoTranscriptFound, a caption download did not deliver a payload
FmtOk(f) ==
    /\ f.ext = "json3" /\ f.url /\ f.fetch.ok
    /\ Get(f.fetch.v).status = HttpOk /\ Get(f.fetch.v).json.ok

OkIn(map) ==
    UNION { { << l, j >> : j \in { k \in 1..Len(Get(map[l])) : FmtOk(Get(map[l])[k]) } } :
            l \in { x \in LangCodes : IsSome(map[x]) } }

\* more downloads were issued than the info has formats that deliver, so one
\* of the issued downloads failed
CaptionDownloadFailed ==
    /\ last.op = "YtdlpTranscriptExtractor.extract"
    /\ last.w.extract_info.ok /\ IsSome(Get(last.w.extract_info.v))
    /\ LET info == Get(Get(last.w.extract_info.v)) IN
       CountCalls(last.out, "httpx.get") >
           Cardinality(OkIn(info.subtitles)) + Cardinality(OkIn(info.automatic_captions))

CommentsRequestFailed ==
    /\ last.op = "YouTubeAPIScraper.scrape"
    /\ Issued(last.out, "commentThreads.list") /\ ~last.w.comment_threads.ok
    /\ Get(last.w.comment_threads.exc).type = "HttpError"

TrackFetchNotFound ==
    /\ last.op = "TranscriptScraper.scrape" /\ last.w.list.ok
    /\ \E i \in 1..Len(Get(last.w.list.v)) :
          LET track == Get(last.w.list.v)[i] IN
          /\ Issued(last.out, FetchCall(track)) /\ ~track.fetch.ok
          /\ Get(track.fetch.exc).type = "NoTranscriptFound"

ToleratedStepFailed == CommentsRequestFailed \/ TrackFetchNotFound \/ CaptionDownloadFailed

\* C2 (as the code has it): no extractor call raises; and when an external
\* step fails that the extractor does not deliberately tolerate, the call
\* returns a failed envelope.  Tolerated are a comment threads request that
\* answers HttpError, a track fetch that raises NoTranscriptFound and a
\* caption download that delivers nothing: after these the attempt goes on
\* and may succeed.
C2_NeverRaises ==
    last.op \in ExtractorOps =>
        /\ ~last.out.raised
        /\ FatalStepFailed => Failed(last.out)

\* C2 (as stated): a failure of the external call at any step yields a failed
\* envelope, and the call never raises.
C2_AnyFailureFails ==
    last.op \in ExtractorOps =>
        /\ ~last.out.raised
        /\ FatalStepFailed \/ ToleratedStepFailed => Failed(last.out)

\* the transcription succeeded, removing the audio file then failed, and the
\* call returned a failed envelope
C2_Witness ==
    /\ last.op = "OpenAIWhisperTranscriber.scrape"
    /\ Issued(last.out, "transcriptions.create") /\ last.w.transcribe.ok
    /\ Issued(last.out, "os.remove") /\ ~last.w.remove.ok
    /\ Failed(last.out)

\* C3: with no API key YouTubeAPIScraper.scrape returns a failed envelope that
\* names YOUTUBE_API_KEY and issues no call at all (no client, no request);
\* with no OPENAI_API_KEY OpenAIWhisperTranscriber.scrape returns a failed
\* envelope that names the key, without a download or a transcription request.
C3_FailFast ==
    /\ last.op = "YouTubeAPIScraper.scrape" /\ (IsNone(last.w.api_key) \/ Get(last.w.api_key) = "") =>
           /\ Failed(last.out) /\ last.out.calls = << >>
           /\ Contains("YOUTUBE_API_KEY", Get(Get(last.out.env).error))
    /\ last.op = "OpenAIWhisperTranscriber.scrape" /\ (IsNone(last.w.api_key) \/ Get(last.w.api_key) = "") =>
           /\ Failed(last.out) /\ last.out.calls = << >>
           /\ Contains("OPENAI_API_KEY", Get(Get(last.out.env).error))

\* no key, while every request would have been answered
C3_Witness ==
    /\ last.op = "YouTubeAPIScraper.scrape" /\ IsNone(last.w.api_key)
    /\ IsSome(extract_video_id(last.url))
    /\ last.w.build.ok /\ last.w.videos.ok /\ Get(last.w.videos.v) # << >>
    /\ Failed(last.out) /\ last.out.calls = << >>

C15_SizeCeiling ==
    last.op = "OpenAIWhisperTranscriber.scrape" /\ Issued(last.out, "os.path.getsize") =>
        IF last.w.file_size > 25 * 1024 * 1024
        THEN ~Issued(last.out, "transcriptions.create") /\ Failed(last.out)
        ELSE Issued(last.out, "transcriptions.create")

\* a file one byte over the ceiling, with a transcription service that would
\* have answered, is turned down unsent
C15_Witness ==
    /\ last.op = "OpenAIWhisperTranscriber.scrape"
    /\ last.w.file_size = 25 * 1024 * 1024 + 1 /\ last.w.transcribe.ok /\ last.w.remove.ok
    /\ Issued(last.out, "os.path.getsize") /\ ~Issued(last.out, "transcriptions.create")
    /\ Failed(last.out)

\* the process environment of the call made last
CloudVariables == << "VERCEL", "AWS_LAMBDA_FUNCTION_NAME", "GOOGLE_CLOUD_PROJECT" >>

\* one of them is set; as os.environ.get(...) is tested for truth, a variable
\* holding the empty string counts as not set
CloudVariableSet ==
    \E k \in 1..Len(CloudVariables) :
        IsSome(last.w.env[CloudVariables[k]]) /\ Get(last.w.env[CloudVariables[k]]) # ""

\* C16: AITranscriber.is_available is false whenever VERCEL,
\* AWS_LAMBDA_FUNCTION_NAME or GOOGLE_CLOUD_PROJECT is set (to a non-empty
\* value) or the whisper module cannot be imported; and whenever it is false, scrape
\* returns a failed "ai-whisper" envelope without downloading audio or
\* loading a model.
C16_SelfReportsUnavailable ==
    last.op = "AITranscriber.scrape" =>
        /\ CloudVariableSet \/ ~last.w.whisper_importable => ~AIIsAvailable(last.w)
        /\ ~AIIsAvailable(last.w) =>
               /\ Failed(last.out) /\ Get(last.out.env).method = "ai-whisper"
               /\ last.out.calls = << >>

\* on AWS Lambda, with whisper importable and a valid url: unavailable, a
\* failed envelope and no external call
C16_Witness ==
    /\ last.op = "AITranscriber.scrape"
    /\ last.w.env.VERCEL = None /\ last.w.env.AWS_LAMBDA_FUNCTION_NAME = Some("fn")
    /\ last.w.whisper_importable /\ IsSome(extract_video_id(last.url))
    /\ ~AIIsAvailable(last.w)
    /\ Failed(last.out) /\ last.out.calls = << >>

\* the channel request of the official-API call made last was issued and raised
ChannelRequestFailed ==
    /\ last.op = "YouTubeAPIScraper.scrape"
    /\ Issued(last.out, "channels.list") /\ ~last.w.channels.ok

\* C17: when the video lookup succeeds and the channel request fails, scrape
\* still returns a successful envelope, with the channel id and name of the
\* video resource and a null subscriber_count.
C17_ChannelBestEffort ==
    ChannelRequestFailed =>
        /\ Succeeded(last.out)
        /\ LET snippet == Get(Get(last.w.videos.v)[1].snippet)
               channel == Get(Get(Get(last.out.env).data).channel)
           IN /\ channel.id = OrEmptyStr(snippet.channelId)
              /\ channel.name = OrEmptyStr(snippet.channelTitle)
              /\ channel.subscriber_count = None

\* the comment threads request of the official-API call made last was issued
\* and answered with an API error (quota, permission, comments disabled)
CommentsApiError ==
    /\ last.op = "YouTubeAPIScraper.scrape" /\ last.include_comments
    /\ Issued(last.out, "commentThreads.list")
    /\ ~last.w.comment_threads.ok /\ Get(last.w.comment_threads.exc).type = "HttpError"

\* C18: when include_comments is true and the comment threads request fails
\* with an API error, scrape still returns a successful envelope, with an
\* empty comments list and every other field as without the comment request.
C18_CommentsBestEffort ==
    CommentsApiError =>
        /\ Succeeded(last.out)
        /\ Get(Get(last.out.env).data).comments = 0
        /\ last.out.env = YouTubeAPIScrape(last.variant, last.url, FALSE, last.w).env

\* comments are disabled on a video whose channel was looked up: a successful
\* envelope with the subscriber count and no comments
C18_Witness ==
    /\ CommentsApiError /\ Succeeded(last.out)
    /\ Issued(last.out, "channels.list")
    /\ Get(Get(Get(last.out.env).data).channel).subscriber_count = Some(7)
    /\ Get(Get(last.out.env).data).comments = 0

(***************************************************************************)
(* Properties of the transcript endpoint (SpecTranscript)                  *)
(***************************************************************************)
Strategy1Failed == IsSome(s1) /\ Failed(Get(s1))
Strategy2Failed == IsSome(s2) /\ Failed(Get(s2))
BothFailed == tpc = "done" /\ Strategy1Failed /\ Strategy2Failed

Error1 == Get(Get(Get(s1).env).error)
Error2 == Get(Get(Get(s2).env).error)

\* C4: strategy 1 is attempted first and strategy 2 only after strategy 1
\* returned a failed envelope; a successful strategy 1 envelope is returned
\* unchanged with strategy 2 never invoked; when strategy 1 failed and
\* strategy 2 succeeded, strategy 2's envelope is returned unchanged.
C4_FallbackOrder ==
    /\ invoked \in { << >>, << "YtdlpTranscriptExtractor.extract" >>,
                     << "YtdlpTranscriptExtractor.extract", "TranscriptScraper.scrape" >> }
    /\ IsSome(s2) \/ Len(invoked) = 2 => Strategy1Failed
    /\ tpc = "done" /\ Succeeded(Get(s1)) =>
           /\ response = Get(s1).env
           /\ s2 = None /\ invoked = << "YtdlpTranscriptExtractor.extract" >>
    /\ tpc = "done" /\ Strategy1Failed /\ Succeeded(Get(s2)) => response = Get(s2).env

\* strategy 1 failed, strategy 2 succeeded and its envelope is the response
C4_Witness ==
    /\ tpc = "done" /\ Strategy1Failed /\ IsSome(s2) /\ Succeeded(Get(s2))
    /\ response = Get(s2).env
    /\ invoked = << "YtdlpTranscriptExtractor.extract", "TranscriptScraper.scrape" >>

\* C5: when both strategies failed the endpoint returns one failed envelope
\* tagged "transcript (combined)", which is neither strategy's envelope, and
\* unless it carries the platform-block message its error contains the error
\* messages of both strategies.
C5_CombinedFailure ==
    BothFailed =>
        /\ IsSome(response)
        /\ Get(response).method = "transcript (combined)"
        /\ ~Get(response).success /\ IsNone(Get(response).data) /\ IsSome(Get(response).error)
        /\ response # Get(s1).env /\ response # Get(s2).env
        /\ Get(Get(response).error) # BlockingMessage =>
               /\ Contains(Error1, Get(Get(response).error))
               /\ Contains(Error2, Get(Get(response).error))

\* both failed with different errors, no block is reported and the combined
\* error holds both texts
C5_Witness ==
    /\ BothFailed /\ Error1 # Error2
    /\ Get(Get(response).error) # BlockingMessage
    /\ Contains(Error1, Get(Get(response).error))
    /\ Contains(Error2, Get(Get(response).error))

SuggestsBlock(text) == Contains("bot", Lower(text)) \/ Contains("blocking", Lower(text))

\* C6: when both strategies failed and either strategy's error text contains
\* "bot" or "blocking" (in any letter case), the combined envelope carries
\* the platform-block message instead of the raw errors.
C6_BlockDetected ==
    BothFailed /\ (SuggestsBlock(Error1) \/ SuggestsBlock(Error2)) =>
        Get(Get(response).error) = BlockingMessage

(***************************************************************************)
(* SpecSummary: the comparator on any list of envelopes                    *)
(***************************************************************************)
InitSummary == ExtractIdle /\ TranscriptIdle /\ program = "api" /\ CompareIdle /\ SummaryIdle
              /\ WhisperIdle /\ PureIdle

SummaryCall ==
    /\ sreq = None
    /\ \E variant \in Variants, rs \in SummaryInputs :
           /\ sreq' = Some([ variant |-> variant, results |-> rs ])
           /\ sres' = Some(generate_comparison_summary(variant, rs))
    /\ UNCHANGED << extractVars, transcriptVars, compareVars, whisperVars, pureVars >>

SummaryReturn ==
    /\ sreq # None
    /\ sreq' = None /\ sres' = None
    /\ UNCHANGED << extractVars, transcriptVars, compareVars, whisperVars, pureVars >>

NextSummary ==
    \/ SummaryCall
    \/ SummaryReturn

SpecSummary == InitSummary /\ [][NextSummary]_vars

(***************************************************************************)
(* Properties of the comparator (SpecSummary)                              *)
(***************************************************************************)
Given == Get(sreq).results
Summary == Get(sres)

Max(S) == CHOOSE x \in S : \A y \in S : x >= y

SucceededAt == { i \in 1..Len(Given) : Given[i].success }
FailedAt == { i \in 1..Len(Given) : ~Given[i].success }

\* the position of i among the members of S, in increasing order
Rank(S, i) == Cardinality({ j \in S : j <= i })

\* C8: methods_succeeded holds, in input order, the method of exactly the
\* envelopes with success=true, and methods_failed holds, in input order, one
\* {method, error} entry for exactly each envelope with success=false, with
\* that envelope's error; every envelope is in one list and not in the other.
C8_Partition ==
    sreq # None =>
        /\ Len(Summary.methods_succeeded) = Cardinality(SucceededAt)
        /\ \A i \in SucceededAt :
               Summary.methods_succeeded[Rank(SucceededAt, i)] = Given[i].method
        /\ Len(Summary.methods_failed) = Cardinality(FailedAt)
        /\ \A i \in FailedAt :
               Summary.methods_failed[Rank(FailedAt, i)] =
                   [ method |-> Given[i].method, error |-> Given[i].error ]
        /\ Len(Summary.methods_succeeded) + Len(Summary.methods_failed) = Len(Given)

\* failed, succeeded, failed: one method succeeded and two entries of failures
C8_Witness ==
    /\ sreq # None /\ Len(Given) = 3
    /\ SucceededAt = { 2 }
    /\ Summary.methods_succeeded = << Given[2].method >>
    /\ Len(Summary.methods_failed) = 2
    /\ Summary.methods_failed[2].method = Given[3].method

TranscriptCount(i) == Len(Get(Given[i].data).transcript)

TagsCount(i) ==
    IF IsSome(Get(Given[i].data).classification) THEN Get(Get(Given[i].data).classification).tags ELSE 0

WithTranscript == { i \in SucceededAt : TranscriptCount(i) > 0 }
WithTags == { i \in SucceededAt : TagsCount(i) > 0 }

\* C9: for transcript and for tags, best_for names the succeeded envelope with
\* the largest count among those with a count above zero, with that count,
\* the earliest in input order among those tied at the largest count; the
\* category is absent when no succeeded envelope has a count above zero.
C9_BestCount ==
    sreq # None =>
        /\ IF WithTranscript = {} THEN Summary.best_for.transcript = None
           ELSE LET most == Max({ TranscriptCount(i) : i \in WithTranscript })
                    first == Min({ i \in WithTranscript : TranscriptCount(i) = most })
                IN Summary.best_for.transcript =
                       Some([ method |-> Given[first].method, count |-> most ])
        /\ IF WithTags = {} THEN Summary.best_for.tags = None
           ELSE LET most == Max({ TagsCount(i) : i \in WithTags })
                    first == Min({ i \in WithTags : TagsCount(i) = most })
                IN Summary.best_for.tags = Some([ method |-> Given[first].method, count |-> most ])

\* the first and the third envelope tie at the largest transcript count, above
\* the second; the first is named
C9_Witness ==
    /\ sreq # None /\ SucceededAt = { 1, 2, 3 }
    /\ TranscriptCount(1) = TranscriptCount(3) /\ TranscriptCount(2) > 0
    /\ TranscriptCount(2) < TranscriptCount(1)
    /\ Summary.best_for.transcript =
           Some([ method |-> Given[1].method, count |-> TranscriptCount(1) ])

WithFps ==
    { i \in SucceededAt : /\ IsSome(Get(Given[i].data).technical)
                          /\ IsSome(Get(Get(Given[i].data).technical).fps) }

\* C10: best_for.technical_details names the last envelope in input order that
\* succeeded and reports a non-null frame rate, whatever the counts; it is
\* absent when no succeeded envelope reports a frame rate.
C10_LastFps ==
    sreq # None =>
        IF WithFps = {} THEN Summary.best_for.technical_details = None
        ELSE Summary.best_for.technical_details = Some([ method |-> Given[Max(WithFps)].method ])

\* the first two envelopes report a frame rate, the third does not; the second
\* is named
C10_Witness ==
    /\ sreq # None /\ WithFps = { 1, 2 } /\ SucceededAt = { 1, 2, 3 }
    /\ Summary.best_for.technical_details = Some([ method |-> Given[2].method ])

\* the positions of the field categories in Fields
FieldAt(name) == CHOOSE i \in 1..Len(Fields) : Fields[i] = name

\* C11: in field_comparison a method is a key under a field category only if
\* the envelope tagged with that method has success=true and data; the method
\* of an envelope with success=false is a key under no category.
C11_OnlySucceededKeys ==
    sreq # None =>
        /\ \A i \in 1..Len(Fields) :
               \A m \in DOMAIN Summary.field_comparison[i] :
                   \E j \in SucceededAt : Given[j].method = m /\ IsSome(Given[j].data)
        /\ \A j \in FailedAt :
               \A i \in 1..Len(Fields) : Given[j].method \notin DOMAIN Summary.field_comparison[i]

\* succeeded, failed, succeeded: the title category holds the first and the
\* third method, and no category holds the second
C11_Witness ==
    /\ sreq # None /\ Len(Given) = 3 /\ FailedAt = { 2 }
    /\ DOMAIN Summary.field_comparison[FieldAt("title")] = { Given[1].method, Given[3].method }
    /\ \A i \in 1..Len(Fields) : Given[2].method \notin DOMAIN Summary.field_comparison[i]

(***************************************************************************)
(* SpecCompare: compare requests served concurrently over the one executor *)
(***************************************************************************)
InitCompare ==
    /\ ExtractIdle /\ TranscriptIdle /\ SummaryIdle
    /\ program \in Variants
    /\ CompareIdle /\ WhisperIdle /\ PureIdle

\* POST /api/scrape/compare arrives: the three calls are submitted, in the
\* fixed order, and the handler awaits gather
CompareReceive ==
    /\ \E r \in Reqs, req \in CompareRequests(program) :
           /\ creq[r].pc = "idle"
           /\ creq' = [ creq EXCEPT ![r] = req ]
           /\ queue' = queue \o << << r, 1 >>, << r, 2 >>, << r, 3 >> >>
    /\ UNCHANGED << program, running, future, finished, cresp >>
    /\ UNCHANGED << extractVars, transcriptVars, summaryVars, whisperVars, pureVars >>

\* faulty variant: a thread for every work item, however many are running
WorkerStartUnbounded ==
    /\ queue # << >>
    /\ running' = running \cup { Head(queue) }
    /\ queue' = Tail(queue)
    /\ UNCHANGED << program, creq, future, finished, cresp >>
    /\ UNCHANGED << extractVars, transcriptVars, summaryVars, whisperVars, pureVars >>

\* an idle worker thread takes the oldest work item
WorkerStart ==
    /\ queue # << >>
    /\ Cardinality(running) < MaxWorkers
    /\ running' = running \cup { Head(queue) }
    /\ queue' = Tail(queue)
    /\ UNCHANGED << program, creq, future, finished, cresp >>
    /\ UNCHANGED << extractVars, transcriptVars, summaryVars, whisperVars, pureVars >>

\* what each extractor call of each request returns, worked out once:
\* << program, request, outcomes of the three calls >>
ExtractorOutcomes ==
    UNION { { << prog, req, << RunExtractor(prog, 1, req), RunExtractor(prog, 2, req),
                               RunExtractor(prog, 3, req) >> >> : req \in CompareRequests(prog) } :
            prog \in Variants }

OutcomeOf(prog, slot, req) ==
    (CHOOSE p \in ExtractorOutcomes : p[1] = prog /\ p[2] = req)[3][slot]

\* the worker thread of call t returns from its extractor call and sets the future
WorkerFinishCall(t) ==
    /\ t \in running
    /\ future' = [ future EXCEPT ![t] = Some(OutcomeOf(program, t[2], creq[t[1]])) ]
    /\ finished' = [ finished EXCEPT ![t[1]] = Append(@, t[2]) ]
    /\ running' = running \ { t }
    /\ UNCHANGED << program, creq, queue, cresp >>
    /\ UNCHANGED << extractVars, transcriptVars, summaryVars, whisperVars, pureVars >>

\* a worker thread returns from its extractor call and sets the future
WorkerFinish == \E t \in running : WorkerFinishCall(t)

\* gather of request r returns once its three futures are set; the summary
\* is built and the ComparisonResult returned
CompareRespondTo(r) ==
    /\ creq[r].pc = "gather"
    /\ \A slot \in Slots : IsSome(future[<< r, slot >>])
    /\ cresp' = [ cresp EXCEPT ![r] =
                      Some(ComparisonResult(program, creq[r], Gather(r, future, finished[r]))) ]
    /\ creq' = [ creq EXCEPT ![r].pc = "done" ]
    /\ UNCHANGED << program, queue, running, future, finished >>
    /\ UNCHANGED << extractVars, transcriptVars, summaryVars, whisperVars, pureVars >>

CompareRespond == \E r \in Reqs : CompareRespondTo(r)

\* the response has been sent; the request's futures are gone
CompareReply ==
    /\ \E r \in Reqs :
           /\ creq[r].pc = "done"
           /\ creq' = [ creq EXCEPT ![r] = [ pc |-> "idle" ] ]
           /\ cresp' = [ cresp EXCEPT ![r] = None ]
           /\ future' = [ t \in Tasks |-> IF t[1] = r THEN None ELSE future[t] ]
           /\ finished' = [ finished EXCEPT ![r] = << >> ]
    /\ UNCHANGED << program, queue, running >>
    /\ UNCHANGED << extractVars, transcriptVars, summaryVars, whisperVars, pureVars >>

NextCompare ==
    \/ CompareReceive
    \/ WorkerStart
    \/ WorkerFinish
    \/ CompareRespond
    \/ CompareReply

SpecCompare == InitCompare /\ [][NextCompare]_vars

\* the pool hands a queued call to a thread that is free, every extractor
\* call returns, and the event loop resumes a handler whose gather is complete
SpecCompareFair ==
    /\ SpecCompare
    /\ WF_vars(WorkerStart)
    /\ \A t \in Tasks : WF_vars(WorkerFinishCall(t))
    /\ \A r \in Reqs : WF_vars(CompareRespondTo(r))

(***************************************************************************)
(* Properties of the comparison endpoint (SpecCompare)                     *)
(***************************************************************************)
\* the method tags of the three extractors in dispatch order: general
\* scraper, official-API scraper, transcript extractor
DispatchOrder ==
    << "yt-dlp", "YouTube API v3",
       IF program = "backend" THEN "youtube-transcript-api" ELSE "yt-dlp-transcript" >>

\* C7: a comparison result exists only once every one of the request's three
\* extractor calls has completed (none is cancelled or skipped, whether
\* another failed or not); its results list holds exactly one envelope per
\* extractor, the one that extractor's call returned, in the dispatch order
\* (general scraper, official-API scraper, transcript extractor) whatever the
\* order the calls finished in; and the summary is the one of that list.
C7_GatherInDispatchOrder ==
    \A r \in Reqs :
        IsSome(cresp[r]) =>
            /\ \A slot \in Slots : IsSome(future[<< r, slot >>]) /\ ~Get(future[<< r, slot >>]).raised
            /\ Len(finished[r]) = 3 /\ { finished[r][k] : k \in 1..3 } = Slots
            /\ \A slot \in Slots : << r, slot >> \notin running
            /\ Len(Get(cresp[r]).results) = 3
            /\ \A slot \in Slots :
                   /\ Get(cresp[r]).results[slot] = Get(Get(future[<< r, slot >>]).env)
                   /\ Get(cresp[r]).results[slot].method = DispatchOrder[slot]
            /\ Get(cresp[r]).comparison_summary =
                   generate_comparison_summary(program, Get(cresp[r]).results)

\* the transcript call finished first and the general scraper last, the
\* official-API call failed, and the response lists them in dispatch order
C7_Witness ==
    \E r \in Reqs :
        /\ IsSome(cresp[r])
        /\ finished[r] = << 3, 2, 1 >>
        /\ ~Get(cresp[r]).results[2].success /\ Get(cresp[r]).results[1].success
        /\ Get(cresp[r]).results[1].method = "yt-dlp"
        /\ Get(cresp[r]).results[3].method = DispatchOrder[3]


(***************************************************************************)
(* SpecWhisper: invocations of OpenAIWhisperTranscriber.scrape running     *)
(* concurrently on worker threads, over one temp directory and one clock.  *)
(* A temp file is << stem, ext >>, stem being the number in yt_audio_<n>.  *)
(***************************************************************************)
\* what ydl.download does under the output template: it raises or returns,
\* having written these files
DownloadOutcomes ==
    { [ raises |-> TRUE, files |-> { "m4a.part" } ],
      [ raises |-> FALSE, files |-> {} ],
      [ raises |-> FALSE, files |-> { "mp3" } ],
      [ raises |-> FALSE, files |-> { "mp3", "m4a" } ] }

\* the size of the audio file and what the transcription request does
TranscribeOutcomes ==
    { [ file_size |-> sz, transcribe |-> t ] :
        sz \in { MaxAudioBytes, MaxAudioBytes + 1 },
        t \in { Throw(Exc("APIError", "Rate limit reached")),
                Ret([ text |-> "hi", language |-> Some("en"), segments |-> << >> ]) } }

RemoveOutcomes == { Ret("removed"), Throw(Exc("PermissionError", "Permission denied")) }

InFlight(i) == wcall[i].pc \in { "download", "find", "transcribe", "cleanup" }

InitWhisper == ExtractIdle /\ TranscriptIdle /\ program = "api" /\ CompareIdle /\ SummaryIdle
              /\ WhisperIdle /\ PureIdle

\* scrape is entered: the key and the url are looked at, and _download_audio
\* names its temp file after the clock
WhisperStart(i) ==
    /\ wcall[i].pc = "idle"
    /\ \E url \in Urls, key \in { None, Some("sk-1") } :
           wcall' = [ wcall EXCEPT ![i] =
               IF FalsyStr(key) \/ IsNone(extract_video_id(url))
               THEN [ pc |-> "done", url |-> url, created |-> {},
                      env |-> Get(OpenAIWhisperScrape(url, [ api_key |-> key ]).env) ]
               ELSE [ pc |-> "download", url |-> url, created |-> {}, temp_path |-> clock ] ]
    /\ UNCHANGED << clock, disk >>
    /\ UNCHANGED << extractVars, transcriptVars, compareVars, summaryVars, pureVars >>

\* ydl.download([url]) writes under temp_path; when it raises,
\* _download_audio returns None and scrape returns
WhisperDownload(i) ==
    /\ wcall[i].pc = "download"
    /\ \E d \in DownloadOutcomes :
           LET written == { << wcall[i].temp_path, e >> : e \in d.files } IN
           /\ disk' = disk \cup written
           /\ wcall' = [ wcall EXCEPT ![i] =
                  IF d.raises
                  THEN [ pc |-> "done", url |-> @.url, created |-> written,
                         env |-> Get(OpenAIWhisperScrape(@.url,
                                     [ api_key |-> Some("sk-1"), download |-> d ]).env) ]
                  ELSE [ pc |-> "find", url |-> @.url, created |-> written,
                         temp_path |-> @.temp_path ] ]
    /\ UNCHANGED clock
    /\ UNCHANGED << extractVars, transcriptVars, compareVars, summaryVars, pureVars >>

\* the loop over the extensions looks for the output file on disk
WhisperFind(i) ==
    /\ wcall[i].pc = "find"
    /\ LET there == [ raises |-> FALSE,
                      files |-> { f[2] : f \in { g \in disk : g[1] = wcall[i].temp_path } } ]
           found == DownloadAudio(there)
       IN wcall' = [ wcall EXCEPT ![i] =
              IF IsNone(found)
              THEN [ pc |-> "done", url |-> @.url, created |-> @.created,
                     env |-> Get(OpenAIWhisperScrape(@.url,
                                 [ api_key |-> Some("sk-1"), download |-> there ]).env) ]
              ELSE [ pc |-> "transcribe", url |-> @.url, created |-> @.created,
                     audio_path |-> << @.temp_path, Get(found) >> ] ]
    /\ UNCHANGED << clock, disk >>
    /\ UNCHANGED << extractVars, transcriptVars, compareVars, summaryVars, pureVars >>

\* _transcribe_audio(audio_path): os.path.getsize raises when the file is
\* gone; else the size check and the transcription request
WhisperTranscribe(i) ==
    /\ wcall[i].pc = "transcribe"
    /\ \E o \in TranscribeOutcomes :
           wcall' = [ wcall EXCEPT ![i] =
               [ pc |-> "cleanup", url |-> @.url, created |-> @.created, audio_path |-> @.audio_path,
                 t |-> IF @.audio_path \in disk THEN TranscribeAudio(o).r
                       ELSE Throw(Exc("FileNotFoundError", "No such file or directory")) ] ]
    /\ UNCHANGED << clock, disk >>
    /\ UNCHANGED << extractVars, transcriptVars, compareVars, summaryVars, pureVars >>

\* the finally clause: os.remove(audio_path) when the file exists, then the
\* envelope of the try block or of the except clause
WhisperCleanup(i) ==
    /\ wcall[i].pc = "cleanup"
    /\ \E rm \in IF wcall[i].audio_path \in disk THEN RemoveOutcomes ELSE { Ret("absent") } :
           /\ disk' = IF rm.ok THEN disk \ { wcall[i].audio_path } ELSE disk
           /\ wcall' = [ wcall EXCEPT ![i] =
                  [ pc |-> "done", url |-> @.url, created |-> @.created,
                    env |-> Get(WhisperTranscribeAndCleanup(Get(extract_video_id(@.url)),
                                    [ file_size |-> 0, transcribe |-> @.t, remove |-> rm ],
                                    << >>).env) ] ]
    /\ UNCHANGED clock
    /\ UNCHANGED << extractVars, transcriptVars, compareVars, summaryVars, pureVars >>

\* scrape has returned its envelope
WhisperReturn(i) ==
    /\ wcall[i].pc = "done"
    /\ wcall' = [ wcall EXCEPT ![i] = [ pc |-> "idle" ] ]
    /\ UNCHANGED << clock, disk >>
    /\ UNCHANGED << extractVars, transcriptVars, compareVars, summaryVars, pureVars >>

\* a second passes
WhisperTick ==
    /\ clock < MaxClock
    /\ clock' = clock + 1
    /\ UNCHANGED << disk, wcall >>
    /\ UNCHANGED << extractVars, transcriptVars, compareVars, summaryVars, pureVars >>

NextWhisper ==
    \/ \E i \in Invocations : WhisperStart(i)
    \/ \E i \in Invocations : WhisperDownload(i)
    \/ \E i \in Invocations : WhisperFind(i)
    \/ \E i \in Invocations : WhisperTranscribe(i)
    \/ \E i \in Invocations : WhisperCleanup(i)
    \/ \E i \in Invocations : WhisperReturn(i)
    \/ WhisperTick

SpecWhisper == InitWhisper /\ [][NextWhisper]_vars

(***************************************************************************)
(* Properties of the hosted transcriber's temp files (SpecWhisper)         *)
(***************************************************************************)
\* C13: when an invocation that started an audio download has returned, on
\* whichever exit path, no temp audio file it created is left on disk.
C13_NoAudioFileLeft ==
    \A i \in Invocations :
        wcall[i].pc = "done" => wcall[i].created \cap disk = {}

\* the stem of the temp path an invocation in flight works on
WhisperTempPath(i) ==
    IF wcall[i].pc \in { "download", "find" } THEN wcall[i].temp_path ELSE wcall[i].audio_path[1]

\* C14: no two invocations in flight use the same temp path (so that none
\* transcribes, overwrites or deletes the audio file of another).
C14_PrivateTempPath ==
    \A i, j \in Invocations :
        i # j /\ InFlight(i) /\ InFlight(j) => WhisperTempPath(i) # WhisperTempPath(j)

(***************************************************************************)
(* parse_duration, format_duration                                         *)
(***************************************************************************)
DigitChars == << "0", "1", "2", "3", "4", "5", "6", "7", "8", "9" >>

DigitValue(c) == (CHOOSE k \in 1..Len(DigitChars) : DigitChars[k] = c) - 1

\* int(s) of a text of decimal digits
RECURSIVE IntOfDigits(_)
IntOfDigits(s) ==
    IF Len(s) = 0 THEN 0
    ELSE IntOfDigits(SubSeq(s, 1, Len(s) - 1)) * 10 + DigitValue(CharAt(s, Len(s)))

\* str(n) of a non-negative int
RECURSIVE StrOfNat(_)
StrOfNat(n) ==
    IF n < 10 THEN DigitChars[n + 1] ELSE StrOfNat(n \div 10) \o DigitChars[(n % 10) + 1]

\* f"{n:02d}" of a non-negative int
TwoDigits(n) == IF n < 10 THEN "0" \o StrOfNat(n) ELSE StrOfNat(n)

\* the length of the run of digits that \d+ takes at position p
RECURSIVE DigitRun(_, _)
DigitRun(s, p) ==
    IF p <= Len(s) /\ CharAt(s, p) \in Digits THEN 1 + DigitRun(s, p + 1) ELSE 0

\* (?:(\d+)X)? at position p: the group and the position after it, or no
\* group and the same position when the digits are not followed by X
OptionalGroup(s, p, letter) ==
    LET n == DigitRun(s, p) IN
    IF n > 0 /\ StartsAt(s, p + n, letter)
    THEN [ group |-> Some(SubSeq(s, p, p + n - 1)), next |-> p + n + 1 ]
    ELSE [ group |-> None, next |-> p ]

\* int(match.group(k) or 0)
GroupOrZero(g) == IF IsNone(g) THEN 0 ELSE IntOfDigits(Get(g))

\* a text that does not match counted as zero seconds
ParseDurationZeroOnMismatch(duration_str) ==
    IF IsNone(duration_str) \/ Get(duration_str) = "" THEN None
    ELSE LET s == Get(duration_str) IN
         IF ~StartsAt(s, 1, "PT") THEN Some(0)
         ELSE LET h   == OptionalGroup(s, Len("PT") + 1, "H")
                  m   == OptionalGroup(s, h.next, "M")
                  sec == OptionalGroup(s, m.next, "S")
              IN Some(GroupOrZero(h.group) * 3600 + GroupOrZero(m.group) * 60
                      + GroupOrZero(sec.group))

parse_duration(duration_str) ==
    IF IsNone(duration_str) \/ Get(duration_str) = "" THEN None
    ELSE LET s == Get(duration_str) IN
         IF ~StartsAt(s, 1, "PT") THEN None
         ELSE LET h   == OptionalGroup(s, Len("PT") + 1, "H")
                  m   == OptionalGroup(s, h.next, "M")
                  sec == OptionalGroup(s, m.next, "S")
              IN Some(GroupOrZero(h.group) * 3600 + GroupOrZero(m.group) * 60
                      + GroupOrZero(sec.group))

\* minutes taken from the total rather than from the remainder of the hours
FormatDurationTotalMinutes(seconds) ==
    IF IsNone(seconds) THEN None
    ELSE LET hours   == Get(seconds) \div 3600
             minutes == Get(seconds) \div 60
             secs    == Get(seconds) % 60
         IN Some(IF hours > 0
                 THEN StrOfNat(hours) \o ":" \o TwoDigits(minutes) \o ":" \o TwoDigits(secs)
                 ELSE StrOfNat(minutes) \o ":" \o TwoDigits(secs))

format_duration(seconds) ==
    IF IsNone(seconds) THEN None
    ELSE LET hours     == Get(seconds) \div 3600
             remainder == Get(seconds) % 3600
             minutes   == remainder \div 60
             secs      == remainder % 60
         IN Some(IF hours > 0
                 THEN StrOfNat(hours) \o ":" \o TwoDigits(minutes) \o ":" \o TwoDigits(secs)
                 ELSE StrOfNat(minutes) \o ":" \o TwoDigits(secs))

(***************************************************************************)
(* parse_chapters_from_description                                         *)
(***************************************************************************)
Chapter(title, start_time, end_time) ==
    [ title |-> title, start_time |-> start_time, end_time |-> end_time ]

\* [-–—]: of the three dashes of the class only the hyphen can be written in
\* a string of this module; the descriptions modelled hold no other dash
DashChars == { "-" }

\* the length of the run of whitespace that \s* can take at position p
RECURSIVE WhitespaceRun(_, _)
WhitespaceRun(s, p) ==
    IF p <= Len(s) /\ CharAt(s, p) \in Whitespace THEN 1 + WhitespaceRun(s, p + 1) ELSE 0

\* \d{1,2}: at position p: one or two digits and the colon
OneOrTwoDigitsColon(s, p) ==
    LET n == DigitRun(s, p) IN n \in 1..2 /\ StartsAt(s, p + n, ":")

\* \s*[-–—]?\s*(.+?)(?=\n|$) from position q. Each \s* gives characters back
\* and the dash is left out only when nothing else matches: of the ways to
\* reach a character other than a newline, the one with the longest first
\* run, then with the dash, then with the longest second run. The title runs
\* lazily to the end of its line.
TitleFrom(s, q) ==
    LET ways == { w \in (0..WhitespaceRun(s, q)) \X { 0, 1 } \X (0..Len(s)) :
                      /\ w[2] = 1 => q + w[1] <= Len(s) /\ CharAt(s, q + w[1]) \in DashChars
                      /\ w[3] <= WhitespaceRun(s, q + w[1] + w[2])
                      /\ q + w[1] + w[2] + w[3] <= Len(s)
                      /\ CharAt(s, q + w[1] + w[2] + w[3]) # "\n" }
        Before(v, w) == \/ v[1] > w[1]
                        \/ v[1] = w[1] /\ v[2] > w[2]
                        \/ v[1] = w[1] /\ v[2] = w[2] /\ v[3] >= w[3]
    IN IF ways = {} THEN None
       ELSE LET w == CHOOSE v \in ways : \A u \in ways : Before(v, u)
                r == q + w[1] + w[2] + w[3]
                e == Min({ k \in r..Len(s) : k = Len(s) \/ CharAt(s, k + 1) = "\n" })
            IN Some([ title |-> SubSeq(s, r, e), next |-> e + 1 ])

\* (?:(\d{1,2}):)?(\d{1,2}):(\d{2}) and the rest of the pattern from position
\* p, with the hours group (first attempt) or without it
StampFrom(s, p, with_hours) ==
    LET n1 == DigitRun(s, p)
        p2 == p + n1 + 1
        n2 == DigitRun(s, p2)
        p3 == p2 + n2 + 1
    IN IF ~OneOrTwoDigitsColon(s, p) THEN None
       ELSE IF with_hours
       THEN IF OneOrTwoDigitsColon(s, p2) /\ DigitRun(s, p3) >= 2 /\ IsSome(TitleFrom(s, p3 + 2))
            THEN Some(<< SubSeq(s, p, p + n1 - 1), SubSeq(s, p2, p2 + n2 - 1),
                         SubSeq(s, p3, p3 + 1), Get(TitleFrom(s, p3 + 2)) >>)
            ELSE None
       ELSE IF DigitRun(s, p2) >= 2 /\ IsSome(TitleFrom(s, p2 + 2))
            THEN Some(<< "", SubSeq(s, p, p + n1 - 1), SubSeq(s, p2, p2 + 1),
                         Get(TitleFrom(s, p2 + 2)) >>)
            ELSE None

\* the pattern matched at position i: (?:^|\n) is the start of the text or a
\* newline (no MULTILINE flag), then \s* up to the first digit
ChapterMatchAt(s, i) ==
    IF i # 1 /\ CharAt(s, i) # "\n" THEN None
    ELSE LET p0 == IF i = 1 THEN 1 ELSE i + 1
             p  == p0 + WhitespaceRun(s, p0)
         IN IF IsSome(StampFrom(s, p, TRUE)) THEN StampFrom(s, p, TRUE)
            ELSE StampFrom(s, p, FALSE)

\* re.findall(pattern, description) from position pos on: the leftmost
\* match, then the matches after its end
RECURSIVE ChapterMatches(_, _)
ChapterMatches(s, pos) ==
    LET starts == { i \in pos..Len(s) : IsSome(ChapterMatchAt(s, i)) } IN
    IF starts = {} THEN << >>
    ELSE LET m == Get(ChapterMatchAt(s, Min(starts))) IN
         << << m[1], m[2], m[3], m[4].title >> >> \o ChapterMatches(s, m[4].next)

\* the loop over the matches: a chapter for each title of more than one character
RECURSIVE ChaptersOfMatches(_)
ChaptersOfMatches(matches) ==
    IF matches = << >> THEN << >>
    ELSE LET match      == Head(matches)
             hours      == IF match[1] # "" THEN IntOfDigits(match[1]) ELSE 0
             minutes    == IntOfDigits(match[2])
             seconds    == IntOfDigits(match[3])
             title      == Strip(match[4])
             start_time == hours * 3600 + minutes * 60 + seconds
         IN (IF title # "" /\ Len(title) > 1 THEN << Chapter(title, start_time, None) >> ELSE << >>)
            \o ChaptersOfMatches(Tail(matches))

\* for i in range(len(chapters) - 1): chapters[i].end_time = chapters[i + 1].start_time
BackFill(chapters) ==
    [ i \in 1..Len(chapters) |->
        IF i < Len(chapters)
        THEN [ chapters[i] EXCEPT !.end_time = Some(chapters[i + 1].start_time) ]
        ELSE chapters[i] ]

parse_chapters_from_description(description) ==
    IF IsNone(description) \/ Get(description) = "" THEN << >>
    ELSE BackFill(ChaptersOfMatches(ChapterMatches(Get(description), 1)))

(***************************************************************************)
(* SpecPure: the helper functions applied to inputs from bounded sets      *)
(***************************************************************************)
MaxSeconds == 7300  \* seconds given to format_duration

\* what precedes the id in a URL of a supported shape
SupportedHeads ==
    { "https://www.youtube.com/watch?v=", "https://www.youtube.com/watch?feature=share&v=",
      "https://m.youtube.com/watch?v=", "https://www.youtube.com/v/", "https://youtu.be/",
      "https://www.youtube.com/embed/", "https://www.youtube.com/shorts/" }

OtherHeads ==
    { "https://www.youtube.com/live/", "https://www.youtube.com/watch?list=",
      "https://www.youtube.com/channel/", "https://example.com/" }

ValidIds == { "dQw4w9WgXcQ", "a-b_c1D2e3F", "00000000000" }

\* too short, a character outside the id alphabet, nothing
InvalidIds == { "dQw4w9WgXc", "dQw4w9W!XcQ", "" }

UrlTails == { "", "&t=10s", "?si=abc", "/", "#t=5" }

\* a count as the API writes it, with the number it denotes
Numerals ==
    { [ text |-> "0", value |-> 0 ], [ text |-> "1", value |-> 1 ], [ text |-> "01", value |-> 1 ],
      [ text |-> "10", value |-> 10 ], [ text |-> "59", value |-> 59 ],
      [ text |-> "90", value |-> 90 ] }

\* a component of PT#H#M#S, present or left out
Components == { None } \cup { Some(n) : n \in Numerals }

ComponentText(c, letter) == IF IsNone(c) THEN "" ELSE Get(c).text \o letter

ComponentValue(c) == IF IsNone(c) THEN 0 ELSE Get(c).value

\* contentDetails.duration values that are not of the form PT#H#M#S
OtherDurations == { None, Some(""), Some("P1D"), Some("P1DT2H"), Some("1H2M"), Some("hello") }

MaxLines == 3       \* lines of a description

\* a line of a description, with the timestamp and the title a reader takes from it
DescriptionLines ==
    { [ text |-> "0:00 Intro", stamp |-> Some(0), title |-> "Intro" ],
      [ text |-> "0:30 - Part", stamp |-> Some(30), title |-> "Part" ],
      [ text |-> "1:30 A", stamp |-> Some(90), title |-> "A" ],
      [ text |-> "2:00", stamp |-> Some(120), title |-> "" ],
      [ text |-> "1:02:03 End", stamp |-> Some(3723), title |-> "End" ],
      [ text |-> "hello", stamp |-> None, title |-> "" ],
      [ text |-> "", stamp |-> None, title |-> "" ] }

\* "\n".join(line texts)
RECURSIVE JoinLines(_)
JoinLines(lines) ==
    IF lines = << >> THEN ""
    ELSE IF Len(lines) = 1 THEN lines[1].text
    ELSE lines[1].text \o "\n" \o JoinLines(Tail(lines))

InitPure == ExtractIdle /\ TranscriptIdle /\ program = "api" /\ CompareIdle /\ SummaryIdle
            /\ WhisperIdle /\ PureIdle

\* extract_video_id(url), in every module that defines it
CallExtractVideoId ==
    /\ fcall = None
    /\ \E head \in SupportedHeads \cup OtherHeads, id \in ValidIds \cup InvalidIds, tail \in UrlTails :
           fcall' = Some([ op |-> "extract_video_id", head |-> head, id |-> id,
                           url |-> head \o id \o tail,
                           out |-> [ m \in ExtractVideoIdModules |->
                                         ExtractVideoIdOf(m, head \o id \o tail) ] ])
    /\ UNCHANGED << extractVars, transcriptVars, compareVars, summaryVars, whisperVars >>

\* format_duration(n)
CallFormatDuration ==
    /\ fcall = None
    /\ \E n \in 0..MaxSeconds :
           fcall' = Some([ op |-> "format_duration", seconds |-> n,
                           out |-> format_duration(Some(n)) ])
    /\ UNCHANGED << extractVars, transcriptVars, compareVars, summaryVars, whisperVars >>

\* duration_seconds = parse_duration(content_details.get('duration')), then
\* duration_string = format_duration(duration_seconds)
CallParseDuration ==
    /\ fcall = None
    /\ \/ \E h \in Components, m \in Components, s \in Components :
              LET x == "PT" \o ComponentText(h, "H") \o ComponentText(m, "M") \o ComponentText(s, "S") IN
              fcall' = Some([ op |-> "parse_duration", duration |-> Some(x), pt |-> TRUE,
                              total |-> ComponentValue(h) * 3600 + ComponentValue(m) * 60
                                        + ComponentValue(s),
                              duration_seconds |-> parse_duration(Some(x)),
                              duration_string |-> format_duration(parse_duration(Some(x))) ])
       \/ \E x \in OtherDurations :
              fcall' = Some([ op |-> "parse_duration", duration |-> x, pt |-> FALSE, total |-> 0,
                              duration_seconds |-> parse_duration(x),
                              duration_string |-> format_duration(parse_duration(x)) ])
    /\ UNCHANGED << extractVars, transcriptVars, compareVars, summaryVars, whisperVars >>

\* parse_chapters_from_description(description)
CallParseChapters ==
    /\ fcall = None
    /\ \E lines \in SeqsUpTo(DescriptionLines, MaxLines) :
           fcall' = Some([ op |-> "parse_chapters_from_description", lines |-> lines,
                           description |-> JoinLines(lines),
                           out |-> parse_chapters_from_description(Some(JoinLines(lines))) ])
    /\ UNCHANGED << extractVars, transcriptVars, compareVars, summaryVars, whisperVars >>

\* the caller has the result
PureReturn ==
    /\ fcall # None
    /\ fcall' = None
    /\ UNCHANGED << extractVars, transcriptVars, compareVars, summaryVars, whisperVars >>

NextPure ==
    \/ CallExtractVideoId
    \/ CallFormatDuration
    \/ CallParseDuration
    \/ CallParseChapters
    \/ PureReturn

SpecPure == InitPure /\ [][NextPure]_vars

(***************************************************************************)
(* Properties of the helper functions (SpecPure)                           *)
(***************************************************************************)
Called(op) == IsSome(fcall) /\ Get(fcall).op = op

\* C19: for a URL of a supported shape (watch?v=, /v/, youtu.be/, /embed/,
\* /shorts/) that holds a valid 11-character id, extract_video_id returns
\* that id; for a URL that holds no such form it returns None; and every
\* copy of the function returns the same result for the same URL.
C19_ExtractVideoId ==
    Called("extract_video_id") =>
        LET c == Get(fcall) IN
        /\ c.head \in SupportedHeads /\ c.id \in ValidIds =>
               \A m \in ExtractVideoIdModules : c.out[m] = Some(c.id)
        /\ c.head \in OtherHeads \/ c.id \in InvalidIds =>
               \A m \in ExtractVideoIdModules : c.out[m] = None
        /\ \A m1, m2 \in ExtractVideoIdModules : c.out[m1] = c.out[m2]

C19_Witness ==
    /\ Called("extract_video_id")
    /\ Get(fcall).url = "https://www.youtube.com/shorts/a-b_c1D2e3F?si=abc"
    /\ Get(fcall).out["api/index.py"] = Some("a-b_c1D2e3F")

\* the texts between the colons of a clock text
RECURSIVE ClockFields(_)
ClockFields(t) ==
    IF \A k \in 1..Len(t) : CharAt(t, k) # ":" THEN << t >>
    ELSE LET k == Min({ j \in 1..Len(t) : CharAt(t, j) = ":" }) IN
         << SubSeq(t, 1, k - 1) >> \o ClockFields(SubSeq(t, k + 1, Len(t)))

IsNumeral(t) == Len(t) > 0 /\ \A k \in 1..Len(t) : CharAt(t, k) \in Digits

\* the seconds a clock text H:MM:SS or M:SS stands for
ClockSeconds(t) ==
    LET f == ClockFields(t) IN
    IF Len(f) = 3 THEN IntOfDigits(f[1]) * 3600 + IntOfDigits(f[2]) * 60 + IntOfDigits(f[3])
    ELSE IntOfDigits(f[1]) * 60 + IntOfDigits(f[2])

\* H:MM:SS when hours is set, M:SS otherwise; MM and SS of two digits, below 60
WellFormedClock(t, hours) ==
    LET f == ClockFields(t)
        n == Len(f) IN
    /\ n = IF hours THEN 3 ELSE 2
    /\ \A k \in 1..n : IsNumeral(f[k])
    /\ \A k \in 2..n : Len(f[k]) = 2
    /\ IntOfDigits(f[n]) < 60
    /\ hours => IntOfDigits(f[2]) < 60

\* C20: format_duration(n) of a non-negative n is H:MM:SS when n >= 3600 and
\* M:SS otherwise, with minutes and seconds below 60, and stands for n
\* seconds; and for a PT#H#M#S text x, format_duration(parse_duration(x))
\* stands for the same number of seconds as x.
C20_DurationPreserved ==
    /\ Called("format_duration") =>
           LET c == Get(fcall) IN
           /\ IsSome(c.out)
           /\ WellFormedClock(Get(c.out), c.seconds >= 3600)
           /\ ClockSeconds(Get(c.out)) = c.seconds
    /\ Called("parse_duration") /\ Get(fcall).pt =>
           LET c == Get(fcall) IN
           /\ c.duration_seconds = Some(c.total)
           /\ IsSome(c.duration_string)
           /\ WellFormedClock(Get(c.duration_string), c.total >= 3600)
           /\ ClockSeconds(Get(c.duration_string)) = c.total

C20_Witness ==
    /\ Called("parse_duration")
    /\ Get(fcall).duration = Some("PT1H90M59S")
    /\ Get(fcall).duration_string = Some("2:30:59")

\* the lines of a description that carry a timestamp and a title of more
\* than one character
ChapterLines(lines) == SelectSeq(lines, LAMBDA l : IsSome(l.stamp) /\ Len(l.title) > 1)

\* C21: the chapters returned are, in description order, those of the lines
\* with a timestamp and a title of more than one character (a line whose
\* title is empty or a single character yields none and takes no part in the
\* back-fill); each ends where the next starts and the last has no end.
C21_ChapterBackFill ==
    Called("parse_chapters_from_description") =>
        LET c    == Get(fcall)
            kept == ChapterLines(c.lines)
            n    == Len(kept) IN
        /\ Len(c.out) = n
        /\ \A i \in 1..n :
               /\ c.out[i].title = kept[i].title
               /\ c.out[i].start_time = Get(kept[i].stamp)
               /\ c.out[i].end_time = IF i < n THEN Some(Get(kept[i + 1].stamp)) ELSE None

(***************************************************************************)
(* Further properties of the extractors (SpecExtract)                      *)
(***************************************************************************)
\* C22: the transcript of a successful envelope, from whichever extractor, is
\* in non-decreasing order of start time, in whatever order the source
\* delivered its caption events or segments.
C22_TranscriptSorted ==
    last.op \in ExtractorOps /\ Succeeded(last.out) =>
        LET t == Get(Get(last.out.env).data).transcript IN
        \A i, j \in 1..Len(t) : i < j => t[i].start <= t[j].start

\* the tracks listed that are in a preferred language and whose fetch returns segments
Fetchable(tracks) ==
    { i \in 1..Len(tracks) :
        /\ \E k \in 1..Len(TranscriptScraperLangs) : tracks[i].language_code = TranscriptScraperLangs[k]
        /\ tracks[i].fetch.ok /\ Get(tracks[i].fetch.v) # << >> }

\* C23: when TranscriptScraper.scrape succeeds, a manually created track in a
\* preferred language (one that can be fetched) wins over every generated
\* track, and a track outside the preferred languages is used only if no
\* track of a preferred language is there to fetch.
C23_ManualBeforeGenerated ==
    last.op = "TranscriptScraper.scrape" /\ Succeeded(last.out) =>
        LET tracks == Get(last.w.list.v)
            raw    == Get(Get(Get(last.out.env).data).raw_data) IN
        /\ (\E i \in Fetchable(tracks) : ~tracks[i].is_generated) => ~raw.is_auto_generated
        /\ (\A k \in 1..Len(TranscriptScraperLangs) : raw.transcript_language # Some(TranscriptScraperLangs[k]))
               => Fetchable(tracks) = {}

\* a caption format that can be fetched and decodes to a segment
FetchableFormat(f) ==
    /\ f.ext = "json3" /\ f.url
    /\ f.fetch.ok /\ Get(f.fetch.v).status = HttpOk /\ Get(f.fetch.v).json.ok
    /\ ParseJson3(Get(Get(f.fetch.v).json.v)) # << >>

\* the language has a track, embedded or fetchable, manual or automatic,
\* that decodes to at least one segment
HasDecodableTrack(w, info, lang) ==
    \/ /\ IsSome(info.requested_subtitles[lang])
       /\ IsSome(Get(info.requested_subtitles[lang]).data)
       /\ ParseJson3(Get(Get(info.requested_subtitles[lang]).data)) # << >>
    \/ /\ w.httpx
       /\ \E source \in { info.subtitles, info.automatic_captions } :
              IsSome(source[lang]) /\ \E j \in 1..Len(Get(source[lang])) : FetchableFormat(Get(source[lang])[j])

DecodableLangs(w, info) ==
    { k \in 1..Len(YtdlpTranscriptLangs) : HasDecodableTrack(w, info, YtdlpTranscriptLangs[k]) }

\* C24: YtdlpTranscriptExtractor.extract uses the first language in priority
\* order that has a track decoding to at least one segment, and fails with
\* "No transcript found" only when no preferred language has such a track.
C24_FirstDecodableLanguage ==
    /\ last.op = "YtdlpTranscriptExtractor.extract" /\ Succeeded(last.out) =>
           LET info == Get(Get(last.w.extract_info.v))
               raw  == Get(Get(Get(last.out.env).data).raw_data) IN
           /\ DecodableLangs(last.w, info) # {}
           /\ raw.transcript_language = Some(YtdlpTranscriptLangs[Min(DecodableLangs(last.w, info))])
    /\ /\ last.op = "YtdlpTranscriptExtractor.extract" /\ Failed(last.out)
       /\ Get(last.out.env).error = Some("No transcript found via yt-dlp")
       => DecodableLangs(last.w, Get(Get(last.w.extract_info.v))) = {}

\* C25: the is_auto_generated flag of a successful YtdlpTranscriptExtractor
\* envelope is true when the track that became the transcript is an automatic
\* one and false when it is a manual one, also when the language has both.
\* An embedded track (requested_subtitles) is the manual track of its
\* language when the language has one, as yt-dlp fills requested_subtitles
\* from subtitles before automatic_captions; a fetched track is the manual
\* one when a manual format of the language was fetched and decoded.
C25_AutoFlagExact ==
    last.op = "YtdlpTranscriptExtractor.extract" /\ Succeeded(last.out) =>
        LET info == Get(Get(last.w.extract_info.v))
            raw  == Get(Get(Get(last.out.env).data).raw_data)
            lang == Get(raw.transcript_language)
            manual == info.subtitles[lang]
            auto   == info.automatic_captions[lang] IN
        IF ~Issued(last.out, "httpx.get")
        THEN /\ IsSome(manual) => ~raw.is_auto_generated
             /\ IsNone(manual) /\ IsSome(auto) => raw.is_auto_generated
        ELSE raw.is_auto_generated =
                 ~(IsSome(manual) /\ \E j \in 1..Len(Get(manual)) : FetchableFormat(Get(manual)[j]))

\* C27: for every raw record yt-dlp can return (the fields other than the
\* height being ones the mapping accepts), YtdlpScraper.scrape yields a
\* successful envelope whose technical.definition is "hd" when the height is
\* at least 720 and "sd" otherwise, an absent or null height included.
C27_DefinitionFromHeight ==
    /\ last.op = "YtdlpScraper.scrape" /\ IsSome(extract_video_id(last.url))
    /\ last.w.extract_info.ok /\ IsSome(Get(last.w.extract_info.v))
    /\ LET info == Get(Get(last.w.extract_info.v)) IN
           info.thumbnails.k # "null" /\ info.age_limit.k # "null" /\ info.title.k # "null"
    => /\ Succeeded(last.out)
       /\ LET height == Get(Get(last.w.extract_info.v)).height IN
              Get(Get(Get(last.out.env).data).technical).definition =
                  IF height.k = "val" /\ height.v >= 720 THEN "hd" ELSE "sd"

\* the API requests in the order the claim gives them
ApiRequestOrder == << "videos.list", "channels.list", "commentThreads.list" >>

RequestRank(c) == CHOOSE k \in 1..Len(ApiRequestOrder) : ApiRequestOrder[k] = c

IsApiRequest(c) == \E k \in 1..Len(ApiRequestOrder) : ApiRequestOrder[k] = c

VideoItemReturned == last.w.videos.ok /\ Get(last.w.videos.v) # << >>

\* C28: YouTubeAPIScraper.scrape issues its requests in the order video,
\* channel, comment threads; the channel and comment requests only after a
\* video lookup that returned an item; when the lookup returns no item the
\* call fails with "Video not found or is private" and issues nothing more;
\* the comment request only when include_comments is true.
C28_RequestOrder ==
    last.op = "YouTubeAPIScraper.scrape" =>
        LET calls == last.out.calls IN
        /\ \A i, j \in 1..Len(calls) :
               i < j /\ IsApiRequest(calls[i]) /\ IsApiRequest(calls[j])
                   => RequestRank(calls[i]) < RequestRank(calls[j])
        /\ Issued(last.out, "channels.list") \/ Issued(last.out, "commentThreads.list")
               => Issued(last.out, "videos.list") /\ VideoItemReturned
        /\ Issued(last.out, "videos.list") /\ last.w.videos.ok /\ Get(last.w.videos.v) = << >>
               => /\ Failed(last.out)
                  /\ Get(last.out.env).error = Some("Video not found or is private")
                  /\ calls[Len(calls)] = "videos.list"
        /\ Issued(last.out, "commentThreads.list") => last.include_comments

\* all three requests, one after the other
C28_Witness ==
    /\ last.op = "YouTubeAPIScraper.scrape" /\ last.include_comments
    /\ last.out.calls = << "build", "videos.list", "channels.list", "commentThreads.list" >>

(***************************************************************************)
(* Properties of the worker pool (SpecCompareFair)                         *)
(***************************************************************************)
Queued(t) == \E k \in 1..Len(queue) : queue[k] = t

\* C29: at no time do more than 3 extractor calls execute; and, every
\* extractor call returning, every submitted call is eventually run and every
\* comparison request eventually has its result, however many requests are
\* in flight.
C29_SharedPool ==
    /\ [](Cardinality(running) <= 3)
    /\ \A t \in Tasks : Queued(t) ~> (t \in running)
    /\ \A r \in Reqs : (creq[r].pc = "gather") ~> IsSome(cresp[r])

\* the three threads are busy and calls of a second request wait in the queue
C29_Witness ==
    /\ Cardinality(running) = 3
    /\ Len(queue) = 3

(***************************************************************************)
(* The two copies of the comparator (SpecSummary)                          *)
(***************************************************************************)
\* C30: for every list of result envelopes, generate_comparison_summary of
\* api/index.py and of backend/main.py return equal summaries (the same
\* methods_succeeded, methods_failed, field_comparison, best_for and
\* total_unique_fields).
C30_SameComparator ==
    IsSome(sreq) =>
        generate_comparison_summary("api", Given) = generate_comparison_summary("backend", Given)

(***************************************************************************)
(* Further properties of the helper functions (SpecPure)                   *)
(***************************************************************************)
\* C26: parse_duration returns hours*3600 + minutes*60 + seconds for a text
\* PT#H#M#S, a component left out counting as 0, and None for a value that
\* does not match the pattern at all, the empty text and None included.
C26_ParseDuration ==
    Called("parse_duration") =>
        IF Get(fcall).pt THEN Get(fcall).duration_seconds = Some(Get(fcall).total)
        ELSE Get(fcall).duration_seconds = None

C26_Witness ==
    /\ Called("parse_duration")
    /\ Get(fcall).duration = Some("P1DT2H")
    /\ Get(fcall).duration_seconds = None

====
